---- MODULE Spec2Model ----
(***************************************************************************)
(* Model of the request engine of ComfyUI-HTTP:                            *)
(*   - HTTPClient (src/http_client.py): post's choice of body keywords and *)
(*     make_request's retry loop over the transport (requests.Session);    *)
(*   - HTTPSessionManager (src/http_session_manager.py): the class-level   *)
(*     _sessions registry, create_session / close_session /                *)
(*     close_all_sessions, run by several threads statement by statement.  *)
(***************************************************************************)
EXTENDS Integers, Sequences, FiniteSets, TLC

\* ------------------------------------------------------------------ bounds
\* largest max_retries a caller configures
MaxRetries == 4
\* largest retry_delay (in whole seconds) a caller configures
MaxDelay == 2

\* ------------------------------------------------------- HTTPClient state
VARIABLES
    max_retries,     \* HTTPClient.max_retries
    retry_delay,     \* HTTPClient.retry_delay
    pc,              \* position of the caller inside post / make_request
    req,             \* method, url and keyword arguments of the current call
    attempt,         \* loop variable of `for attempt in range(self.max_retries)`
    last_exception,  \* local last_exception of make_request
    outcome,         \* what the call gave back: a result tuple or a raised error
    log              \* transport calls and sleeps performed, in order

cvars == <<max_retries, retry_delay, pc, req, attempt, last_exception, outcome, log>>

\* ------------------------------------------------- HTTPSessionManager state
VARIABLES
    entries,   \* HTTPSessionManager._sessions: the dict's entry table, in insertion order
    clients,   \* every HTTPClient constructed so far; an object's identity is its index
    th,        \* per thread: the call it is in, its position and its local variables
    hist,      \* calls completed so far, in order of completion
    nops       \* calls started so far

rvars == <<entries, clients, th, hist, nops>>

\* --------------------------------------------------------- form composer state
VARIABLES
    cf,     \* the frame of the concat_form_data call: its arguments, loop position, combined_data
    fd      \* the frame of the create_form_data call: its items, loop position, form_data

fvars == <<cf, fd>>

\* --------------------------------------------------------- field extraction state
VARIABLES
    jx,     \* the frame of the field-extraction call: its arguments, loop position, result
    hg      \* the frame of the http_get call: its arguments, loop variables, requests sent

xvars == <<jx, hg>>

None == "None"

\* values a caller hands over as data / json_data / files
DataValues == {None, "EmptyStr", "Str", "EmptyDict", "Dict"}
JsonValues == {None, "EmptyDict", "Dict"}
FilesValues == {None, "EmptyDict", "Dict"}

\* Python truthiness of the values above
Truthy(v) == v \in {"Str", "Dict"}

Absent == "Absent"

Urls == {"http://host/ok", "not a url"}
Methods == {"get", "POST", "brew"}

\* str.upper() on the method names used here
Upper(m) ==
    CASE m = "get" -> "GET"
      [] m = "brew" -> "BREW"
      [] OTHER -> m

\* exceptions of the transport below the HTTP layer
TransportErrors == {"Timeout", "ConnectionError"}
\* requests raises these from Session.request while preparing the request
InvalidURL == "InvalidURL"

StatusCodes == {200, 404, 500}
HeaderKeys == {"Content-Type", "content-type"}
ContentTypes == {"application/json", "image/png", "application/octet-stream"}

\* a response: its status and its headers as received (at most a content type)
Responses ==
    [kind : {"response"}, status : StatusCodes, ctKey : {Absent}, ctVal : {Absent}]
    \cup [kind : {"response"}, status : StatusCodes, ctKey : HeaderKeys, ctVal : ContentTypes]

Raise(e) == [kind |-> "raise", exc |-> e]

\* self.session.request(method.upper(), url, **kwargs): what one call can do.
\* A URL requests cannot prepare raises before any I/O; any method string is sent.
session_request(r) ==
    IF r.url = "not a url"
    THEN {Raise(InvalidURL)}
    ELSE Responses \cup {Raise(e) : e \in TransportErrors}

\* a handler that treats 5xx like a failed attempt (raise_for_status)
response_result_raise_5xx(resp) ==
    IF resp.status >= 500
    THEN [kind |-> "raise", exc |-> "HTTPError"]
    ELSE [kind |-> "return", status |-> resp.status,
          headers |-> [ctKey |-> resp.ctKey, ctVal |-> resp.ctVal],
          content |-> "text"]

\* a loop that goes on to the next attempt after a response
attempt_returns_goes_on ==
    /\ pc = "loop"
    /\ attempt < max_retries
    /\ \E r \in {x \in Responses : req.url # "not a url"} :
        /\ log' = Append(log, [ev |-> "request", attempt |-> attempt, kind |-> r.kind,
                               status |-> r.status, exc |-> None, secs |-> 0])
        /\ outcome' = [kind |-> "return", status |-> r.status,
                       headers |-> [ctKey |-> r.ctKey, ctVal |-> r.ctVal],
                       content |-> "text"]
        /\ pc' = IF attempt + 1 < max_retries THEN "loop" ELSE "returned"
        /\ attempt' = attempt + 1
    /\ UNCHANGED <<max_retries, retry_delay, req, last_exception, rvars, fvars, xvars>>

\* lines 85-99: headers to a plain dict, body as bytes or text, result tuple
\* dict.get('content-type') is an exact-key lookup on the plain dict
response_result(resp) ==
    LET content_type == IF resp.ctKey = "content-type" THEN resp.ctVal ELSE ""
        \* 'image/' in content_type or 'application/octet-stream' in content_type
        binary == content_type \in {"image/png", "application/octet-stream"}
    IN  [kind |-> "return",
         status |-> resp.status,
         headers |-> [ctKey |-> resp.ctKey, ctVal |-> resp.ctVal],
         content |-> IF binary THEN "bytes" ELSE "text"]

NoArgs == [data |-> None, json_data |-> None, files |-> None]

NoReq == [method |-> None, url |-> None, json |-> Absent, data |-> Absent,
          files |-> Absent, via |-> None, args |-> NoArgs]

NoOutcome == [kind |-> "none"]

InitClient ==
    /\ max_retries = 3
    /\ retry_delay = 1
    /\ pc = "idle"
    /\ req = NoReq
    /\ attempt = 0
    /\ last_exception = None
    /\ outcome = NoOutcome
    /\ log = <<>>

\* HTTPSessionManager.create_session lines 61-62 on this client: plain assignment
set_retry_config(n, d) ==
    /\ pc = "idle"
    /\ max_retries' = n
    /\ retry_delay' = d
    /\ UNCHANGED <<pc, req, attempt, last_exception, outcome, log, rvars, fvars, xvars>>

\* entry of make_request: lines 74-78
enter_make_request(r) ==
    /\ req' = r
    /\ attempt' = 0
    /\ last_exception' = None
    /\ pc' = "loop"
    /\ UNCHANGED <<max_retries, retry_delay, outcome, log, rvars, fvars, xvars>>

\* post with `if data is not None` in place of `elif`
post_kwargs_no_elif(data, json_data, files) ==
    [json  |-> IF json_data # None THEN json_data ELSE Absent,
     data  |-> IF data # None THEN data ELSE Absent,
     files |-> IF Truthy(files) THEN files ELSE Absent]

\* HTTPClient.post lines 151-156: the keyword arguments handed to make_request
post_kwargs(data, json_data, files) ==
    [json  |-> IF json_data # None THEN json_data ELSE Absent,
     data  |-> IF json_data = None /\ data # None THEN data ELSE Absent,
     files |-> IF Truthy(files) THEN files ELSE Absent]

\* HTTPClient.post
post(url, data, json_data, files) ==
    /\ pc = "idle"
    /\ LET kw == post_kwargs(data, json_data, files)
       IN enter_make_request(
            [method |-> "POST", url |-> url, json |-> kw.json, data |-> kw.data,
             files |-> kw.files, via |-> "post",
             args |-> [data |-> data, json_data |-> json_data, files |-> files]])

\* HTTPClient.make_request called with a method of the caller's choosing
\* (get, delete, head, options pass their verb; nodes may pass any string)
make_request(method, url) ==
    /\ pc = "idle"
    /\ enter_make_request(
            [method |-> Upper(method), url |-> url, json |-> Absent, data |-> Absent,
             files |-> Absent, via |-> "make_request", args |-> NoArgs])

\* HTTPClient.get_binary lines 111-119: a GET through get_binary's own retry loop
get_binary(url) ==
    /\ pc = "idle"
    /\ enter_make_request(
            [method |-> "GET", url |-> url, json |-> Absent, data |-> Absent,
             files |-> Absent, via |-> "get_binary", args |-> NoArgs])

\* get_binary lines 124-130: headers to a plain dict, response.content as it is
binary_result(resp) ==
    [kind |-> "return",
     status |-> resp.status,
     headers |-> [ctKey |-> resp.ctKey, ctVal |-> resp.ctVal],
     content |-> "bytes"]

\* the exception of lines 109 and 140 when no attempt left one
failed_after_all_retries(via) ==
    IF via = "get_binary" THEN "HTTP binary request failed after all retries"
    ELSE "HTTP request failed after all retries"

\* a sleep after every failed attempt, the last included
sleep_due_after_last(a, n) == a < n

\* line 105: is a sleep due after failed attempt number `a` (0-based)
sleep_due(a, n) == a < n - 1

\* a constant delay
sleep_time_constant(d, a) == d

\* line 106: its length
sleep_time(d, a) == d * (a + 1)

\* keeping the first exception instead of the latest
remember_first(prev, e) == IF prev = None THEN e ELSE prev

\* line 102: what make_request remembers of a failed attempt
remember(prev, e) == e

\* lines 82-103: what one pass of the loop body makes of the transport's answer:
\* a response is turned into the result tuple, an exception is caught
after_request(r) == IF r.kind = "response" THEN response_result(r) ELSE r

\* a loop that makes its first attempt whatever max_retries is
attempt_fails_at_least_once ==
    /\ pc = "loop"
    /\ attempt < max_retries \/ attempt = 0
    /\ \E r \in session_request(req) :
        /\ after_request(r).kind = "raise"
        /\ log' = Append(log, [ev |-> "request", attempt |-> attempt, kind |-> r.kind,
                               status |-> 0, exc |-> r.exc, secs |-> 0])
        /\ last_exception' = remember(last_exception, after_request(r).exc)
    /\ pc' = IF sleep_due(attempt, max_retries) THEN "sleep" ELSE "loop"
    /\ attempt' = IF sleep_due(attempt, max_retries) THEN attempt ELSE attempt + 1
    /\ UNCHANGED <<max_retries, retry_delay, req, outcome, rvars, fvars, xvars>>

RequestEvent(a, r) ==
    [ev |-> "request", attempt |-> a, kind |-> r.kind,
     status |-> IF r.kind = "response" THEN r.status ELSE 0,
     exc |-> IF r.kind = "raise" THEN r.exc ELSE None,
     secs |-> 0]

SleepEvent(a, t) ==
    [ev |-> "sleep", attempt |-> a, kind |-> "sleep", status |-> 0, exc |-> None, secs |-> t]

\* one pass of the loop body that returns: lines 82-99 (get_binary: 123-130)
attempt_returns ==
    /\ pc = "loop"
    /\ attempt < max_retries
    /\ \E r \in session_request(req) :
        /\ after_request(r).kind = "return"
        /\ log' = Append(log, RequestEvent(attempt, r))
        /\ outcome' = IF req.via = "get_binary" THEN binary_result(r) ELSE after_request(r)
        /\ pc' = "returned"
    /\ UNCHANGED <<max_retries, retry_delay, req, attempt, last_exception, rvars, fvars, xvars>>

\* one pass of the loop body that ends in the except clause: lines 82, 101-106
attempt_fails ==
    /\ pc = "loop"
    /\ attempt < max_retries
    /\ \E r \in session_request(req) :
        /\ after_request(r).kind = "raise"
        /\ log' = Append(log, RequestEvent(attempt, r))
        /\ last_exception' = remember(last_exception, after_request(r).exc)
    /\ pc' = IF sleep_due(attempt, max_retries) THEN "sleep" ELSE "loop"
    /\ attempt' = IF sleep_due(attempt, max_retries) THEN attempt ELSE attempt + 1
    /\ UNCHANGED <<max_retries, retry_delay, req, outcome, rvars, fvars, xvars>>

\* line 106: time.sleep(self.retry_delay * (attempt + 1)), then the next pass
backoff_sleep ==
    /\ pc = "sleep"
    /\ log' = Append(log, SleepEvent(attempt, sleep_time(retry_delay, attempt)))
    /\ attempt' = attempt + 1
    /\ pc' = "loop"
    /\ UNCHANGED <<max_retries, retry_delay, req, last_exception, outcome, rvars, fvars, xvars>>

\* line 109: the loop is exhausted
raise_after_loop ==
    /\ pc = "loop"
    /\ attempt >= max_retries
    /\ outcome' = Raise(IF last_exception # None THEN last_exception
                        ELSE failed_after_all_retries(req.via))
    /\ pc' = "raised"
    /\ UNCHANGED <<max_retries, retry_delay, req, attempt, last_exception, log, rvars, fvars, xvars>>

NextClient ==
    \/ \E n \in (-1)..MaxRetries, d \in 0..MaxDelay : set_retry_config(n, d)
    \/ \E u \in Urls, d \in DataValues, j \in JsonValues, f \in FilesValues : post(u, d, j, f)
    \/ \E m \in Methods, u \in Urls : make_request(m, u)
    \/ \E u \in Urls : get_binary(u)
    \/ attempt_returns
    \/ attempt_fails
    \/ backoff_sleep
    \/ raise_after_loop

\* --------------------------------------------------- HTTPSessionManager
\* threads calling into the session manager
NumThreads == 2
\* calls into the session manager one behaviour performs
MaxOps == 4
\* HTTPClient objects one behaviour constructs
MaxClients == 3

Threads == 1..NumThreads
Names == {"a", "b"}

HeaderNames == {"User-Agent", "Authorization", "X-API-Key", "X-Trace"}
CookieNames == {"sid"}
NoValue == <<>>
NoHeaders == [h \in HeaderNames |-> NoValue]
NoCookies == [k \in CookieNames |-> NoValue]
NoProxies == [http |-> "", https |-> ""]
NoAuth == <<>>

\* HTTPClient.__init__, with the session name it was constructed for
NewClient(name) ==
    [closed |-> FALSE, forName |-> name,
     timeout |-> 30, verify_ssl |-> TRUE, allow_redirects |-> TRUE,
     max_retries |-> 3, retry_delay |-> 1,
     headers |-> [NoHeaders EXCEPT !["User-Agent"] = <<"Mozilla/5.0">>],
     cookies |-> NoCookies, proxies |-> NoProxies, auth |-> NoAuth]

\* json.loads on the texts used as headers / cookies arguments
json_loads(text) ==
    CASE text = "{\"X-Trace\": \"t1\"}" ->
            [raises |-> FALSE, isdict |-> TRUE, empty |-> FALSE,
             items |-> [NoHeaders EXCEPT !["X-Trace"] = <<"t1">>]]
      [] text = "{\"Authorization\": \"Custom c\"}" ->
            [raises |-> FALSE, isdict |-> TRUE, empty |-> FALSE,
             items |-> [NoHeaders EXCEPT !["Authorization"] = <<"Custom c">>]]
      [] text = "{\"sid\": \"1\"}" ->
            [raises |-> FALSE, isdict |-> TRUE, empty |-> FALSE,
             items |-> [NoCookies EXCEPT !["sid"] = <<"1">>]]
      [] text = "[1]" ->
            [raises |-> FALSE, isdict |-> FALSE, empty |-> FALSE, items |-> <<>>]
      [] text = "{ }" ->
            [raises |-> FALSE, isdict |-> TRUE, empty |-> TRUE, items |-> <<>>]
      [] OTHER ->
            [raises |-> TRUE, isdict |-> FALSE, empty |-> TRUE, items |-> <<>>]

\* dict.update: the keys of `new` overwrite, the others stay
dict_update(old, new) ==
    [k \in DOMAIN old |-> IF new[k] # NoValue THEN new[k] ELSE old[k]]

\* HTTPClient.set_timeout
set_timeout(c, timeout) == [c EXCEPT !.timeout = IF timeout > 1 THEN timeout ELSE 1]

\* HTTPClient.set_ssl_verify
set_ssl_verify(c, verify) == [c EXCEPT !.verify_ssl = verify]

\* HTTPClient.set_proxy
set_proxy(c, proxy_url) ==
    IF proxy_url # ""
    THEN [c EXCEPT !.proxies = [http |-> proxy_url, https |-> proxy_url]]
    ELSE c

\* HTTPClient.set_headers
set_headers(c, headers) == [c EXCEPT !.headers = dict_update(@, headers)]

\* HTTPClient.set_cookies
set_cookies(c, cookies) == [c EXCEPT !.cookies = dict_update(@, cookies)]

\* set_auth that sends the API key as the Authorization header
set_auth_key_in_authorization(c, auth_type, username, password, token, api_key, api_key_header) ==
    IF auth_type = "basic" /\ username # "" /\ password # ""
    THEN [c EXCEPT !.auth = <<username, password>>]
    ELSE IF auth_type = "bearer" /\ token # ""
    THEN [c EXCEPT !.headers["Authorization"] = <<"Bearer", token>>]
    ELSE IF auth_type = "api_key" /\ api_key # ""
    THEN [c EXCEPT !.headers["Authorization"] = <<api_key>>]
    ELSE IF auth_type = "token" /\ token # ""
    THEN [c EXCEPT !.headers["Authorization"] = <<"Token", token>>]
    ELSE c

\* HTTPClient.set_auth
set_auth(c, auth_type, username, password, token, api_key, api_key_header) ==
    IF auth_type = "basic" /\ username # "" /\ password # ""
    THEN [c EXCEPT !.auth = <<username, password>>]
    ELSE IF auth_type = "bearer" /\ token # ""
    THEN [c EXCEPT !.headers["Authorization"] = <<"Bearer", token>>]
    ELSE IF auth_type = "api_key" /\ api_key # ""
    THEN [c EXCEPT !.headers[api_key_header] = <<api_key>>]
    ELSE IF auth_type = "token" /\ token # ""
    THEN [c EXCEPT !.headers["Authorization"] = <<"Token", token>>]
    ELSE c

\* create_session lines 69-75 (headers) and 78-84 (cookies): the mapping that reaches
\* set_headers / set_cookies. "" and "{}" are not parsed; text that json.loads rejects,
\* an empty object, and a value that is no object (update() raises on it) all end in
\* `except Exception: pass` or skip the call: nothing is applied (`nothing`)
parsed_mapping(text, nothing) ==
    IF text = "" \/ text = "{}"
    THEN nothing
    ELSE LET v == json_loads(text)
         IN IF v.raises \/ v.empty \/ ~v.isdict THEN nothing ELSE v.items

\* a create_session that starts from a client without authentication
configure_resets_auth(c, cfg) ==
    LET c0 == [c EXCEPT !.auth = NoAuth, !.headers["Authorization"] = NoValue,
                        !.headers["X-API-Key"] = NoValue]
        c1 == set_ssl_verify(set_timeout(c0, cfg.timeout), cfg.verify_ssl)
        c2 == [c1 EXCEPT !.max_retries = cfg.max_retries, !.retry_delay = cfg.retry_delay]
        c3 == IF cfg.proxy_url # "" THEN set_proxy(c2, cfg.proxy_url) ELSE c2
        c4 == set_headers(c3, parsed_mapping(cfg.headers, NoHeaders))
        c5 == set_cookies(c4, parsed_mapping(cfg.cookies, NoCookies))
    IN  IF cfg.auth_type # "none"
        THEN set_auth(c5, cfg.auth_type, cfg.username, cfg.password, cfg.token,
                      cfg.api_key, cfg.api_key_header)
        ELSE c5

\* create_session lines 58-88: the configuration written onto the client
configure(c, cfg) ==
    LET c1 == set_ssl_verify(set_timeout(c, cfg.timeout), cfg.verify_ssl)
        c2 == [c1 EXCEPT !.max_retries = cfg.max_retries, !.retry_delay = cfg.retry_delay]
        c3 == IF cfg.proxy_url # "" THEN set_proxy(c2, cfg.proxy_url) ELSE c2
        c4 == set_headers(c3, parsed_mapping(cfg.headers, NoHeaders))
        c5 == set_cookies(c4, parsed_mapping(cfg.cookies, NoCookies))
    IN  IF cfg.auth_type # "none"
        THEN set_auth(c5, cfg.auth_type, cfg.username, cfg.password, cfg.token,
                      cfg.api_key, cfg.api_key_header)
        ELSE c5

\* the defaults of create_session's parameters (INPUT_TYPES / the signature)
DefaultCfg ==
    [timeout |-> 30, headers |-> "{}", cookies |-> "{}", auth_type |-> "none",
     username |-> "", password |-> "", token |-> "", api_key |-> "",
     api_key_header |-> "X-API-Key", verify_ssl |-> TRUE, proxy_url |-> "",
     max_retries |-> 3, retry_delay |-> 1]

\* arguments of the create_session calls explored
Cfgs ==
    { DefaultCfg,
      [DefaultCfg EXCEPT !.timeout = 0, !.verify_ssl = FALSE, !.proxy_url = "http://p:1",
                         !.max_retries = 1, !.retry_delay = 2,
                         !.headers = "{\"X-Trace\": \"t1\"}", !.cookies = "{\"sid\": \"1\"}"],
      [DefaultCfg EXCEPT !.auth_type = "bearer", !.token = "tok", !.headers = "not json"],
      [DefaultCfg EXCEPT !.auth_type = "api_key", !.api_key = "k1", !.cookies = "[1]"] }

\* ---- the dict _sessions: an entry table in insertion order; del leaves a dead
\* ---- entry behind, an insert of a new key appends, a store to a live key
\* ---- overwrites in place
Live == {i \in DOMAIN entries : entries[i].live}
Slot(name) == CHOOSE i \in Live : entries[i].name = name
\* session_name in self._sessions
Has(name) == \E i \in Live : entries[i].name = name
\* self._sessions[session_name]
Get(name) == entries[Slot(name)].cid
\* self._sessions[session_name] = client
Store(name, cid) ==
    IF Has(name)
    THEN [entries EXCEPT ![Slot(name)].cid = cid]
    ELSE Append(entries, [name |-> name, cid |-> cid, live |-> TRUE])
\* a del that leaves the entry in the registry
Del_keeps_entry(name) == entries

\* del self._sessions[session_name]
Del(name) == [entries EXCEPT ![Slot(name)].live = FALSE]
\* len(self._sessions)
Size == Cardinality(Live)

\* the defaults of HTTPAuth.create_auth's parameters
NoAuthConfig ==
    [type |-> "none", username |-> "", password |-> "", token |-> "", api_key |-> "",
     api_key_header |-> "X-API-Key", client_id |-> "", client_secret |-> "",
     oauth_token_url |-> "", scope |-> "", custom_headers |-> "{}"]

\* what the request of a verb node carried from its client: nothing sent yet
NoSent == [headers |-> NoHeaders, cookies |-> NoCookies, auth |-> NoAuth]

Idle == [pc |-> "idle", op |-> "none", name |-> "", cfg |-> DefaultCfg,
         new |-> 0, client |-> 0, pos |-> 0, used |-> 0,
         auth |-> NoAuthConfig, posted |-> 0,
         session |-> 0, status |-> 0, sent |-> NoSent]

InitRegistry ==
    /\ entries = <<>>
    /\ clients = <<>>
    /\ th = [t \in Threads |-> Idle]
    /\ hist = <<>>
    /\ nops = 0

At(t, where) == th[t].pc = where
Goto(t, where) == th' = [th EXCEPT ![t].pc = where]

Completed(t, result, cid, exc) ==
    [op |-> th[t].op, name |-> th[t].name, thread |-> t, result |-> result, cid |-> cid,
     closed |-> IF cid = 0 THEN FALSE ELSE clients[cid].closed, exc |-> exc]

\* the call ends by raising exc
Raises(t, exc) ==
    /\ th' = [th EXCEPT ![t].pc = "raised"]
    /\ hist' = Append(hist, Completed(t, "raised", 0, exc))

\* the call ends by returning (the client cid, or nothing when cid = 0)
Returns(t, cid) ==
    /\ th' = [th EXCEPT ![t].pc = "done"]
    /\ hist' = Append(hist, Completed(t, "returned", cid, None))

\* a thread enters create_session(session_name = name, ...cfg)
call_create_session(t, name, cfg) ==
    /\ At(t, "idle")
    /\ nops < MaxOps
    /\ nops' = nops + 1
    /\ th' = [th EXCEPT ![t] = [Idle EXCEPT !.pc = "cs53", !.op = "create_session",
                                           !.name = name, !.cfg = cfg]]
    /\ UNCHANGED <<entries, clients, hist, cvars, fvars, xvars>>

\* line 53: if session_name not in self._sessions
cs_test(t) ==
    /\ At(t, "cs53")
    /\ Goto(t, IF Has(th[t].name) THEN "cs56" ELSE "cs54")
    /\ UNCHANGED <<entries, clients, hist, nops, cvars, fvars, xvars>>

\* line 54, right-hand side: HTTPClient()
cs_construct(t) ==
    /\ At(t, "cs54")
    /\ Len(clients) < MaxClients
    /\ clients' = Append(clients, NewClient(th[t].name))
    /\ th' = [th EXCEPT ![t].pc = "cs54s", ![t].new = Len(clients) + 1]
    /\ UNCHANGED <<entries, hist, nops, cvars, fvars, xvars>>

\* line 54, the store: self._sessions[session_name] = <the new client>
cs_store(t) ==
    /\ At(t, "cs54s")
    /\ entries' = Store(th[t].name, th[t].new)
    /\ Goto(t, "cs56")
    /\ UNCHANGED <<clients, hist, nops, cvars, fvars, xvars>>

\* line 56: client = self._sessions[session_name]; KeyError when the key is gone
cs_lookup(t) ==
    /\ At(t, "cs56")
    /\ IF Has(th[t].name)
       THEN /\ th' = [th EXCEPT ![t].pc = "cs58", ![t].client = Get(th[t].name)]
            /\ UNCHANGED hist
       ELSE Raises(t, "KeyError")
    /\ UNCHANGED <<entries, clients, nops, cvars, fvars, xvars>>

\* lines 58-88: configure the client
cs_configure(t) ==
    /\ At(t, "cs58")
    /\ clients' = [clients EXCEPT ![th[t].client] = configure(@, th[t].cfg)]
    /\ Goto(t, "cs91")
    /\ UNCHANGED <<entries, hist, nops, cvars, fvars, xvars>>

\* lines 91-101: build session_config around the client and return it
cs_return(t) ==
    /\ At(t, "cs91")
    /\ Returns(t, th[t].client)
    /\ UNCHANGED <<entries, clients, nops, cvars, fvars, xvars>>

\* a thread enters close_session(name)
call_close_session(t, name) ==
    /\ At(t, "idle")
    /\ nops < MaxOps
    /\ nops' = nops + 1
    /\ th' = [th EXCEPT ![t] = [Idle EXCEPT !.pc = "cl111", !.op = "close_session",
                                           !.name = name]]
    /\ UNCHANGED <<entries, clients, hist, cvars, fvars, xvars>>

\* a close_session that goes on to line 112 whatever the test says
cl_test_always_closes(t) ==
    /\ At(t, "cl111")
    /\ Goto(t, "cl112")
    /\ UNCHANGED <<entries, clients, hist, nops, cvars, fvars, xvars>>

\* line 111: if session_name in cls._sessions; an absent name returns at once
cl_test(t) ==
    /\ At(t, "cl111")
    /\ IF Has(th[t].name)
       THEN Goto(t, "cl112") /\ UNCHANGED hist
       ELSE Returns(t, 0)
    /\ UNCHANGED <<entries, clients, nops, cvars, fvars, xvars>>

\* line 112: cls._sessions[session_name].close()
cl_close(t) ==
    /\ At(t, "cl112")
    /\ IF Has(th[t].name)
       THEN /\ clients' = [clients EXCEPT ![Get(th[t].name)].closed = TRUE]
            /\ Goto(t, "cl113")
            /\ UNCHANGED hist
       ELSE Raises(t, "KeyError") /\ UNCHANGED clients
    /\ UNCHANGED <<entries, nops, cvars, fvars, xvars>>

\* line 113: del cls._sessions[session_name]
cl_del(t) ==
    /\ At(t, "cl113")
    /\ IF Has(th[t].name)
       THEN entries' = Del(th[t].name) /\ Returns(t, 0)
       ELSE Raises(t, "KeyError") /\ UNCHANGED entries
    /\ UNCHANGED <<clients, nops, cvars, fvars, xvars>>

\* a thread enters close_all_sessions(); line 118 creates the values iterator,
\* which remembers the dict's size
call_close_all_sessions(t) ==
    /\ At(t, "idle")
    /\ nops < MaxOps
    /\ nops' = nops + 1
    /\ th' = [th EXCEPT ![t] = [Idle EXCEPT !.pc = "ca118", !.op = "close_all_sessions",
                                           !.pos = 1, !.used = Size]]
    /\ UNCHANGED <<entries, clients, hist, cvars, fvars, xvars>>

\* first live entry at or after position p, or 0
NextLive(p) ==
    IF \E i \in Live : i >= p
    THEN CHOOSE i \in Live : i >= p /\ \A j \in Live : j >= p => i <= j
    ELSE 0

\* lines 118-119: one step of `for client in cls._sessions.values(): client.close()`;
\* the iterator raises RuntimeError when the dict changed size under it
ca_next(t) ==
    /\ At(t, "ca118")
    /\ IF Size # th[t].used
       THEN Raises(t, "RuntimeError") /\ UNCHANGED clients
       ELSE IF NextLive(th[t].pos) = 0
       THEN Goto(t, "ca120") /\ UNCHANGED <<clients, hist>>
       ELSE /\ clients' = [clients EXCEPT ![entries[NextLive(th[t].pos)].cid].closed = TRUE]
            /\ th' = [th EXCEPT ![t].pos = NextLive(th[t].pos) + 1]
            /\ UNCHANGED hist
    /\ UNCHANGED <<entries, nops, cvars, fvars, xvars>>

\* line 120: cls._sessions.clear()
ca_clear(t) ==
    /\ At(t, "ca120")
    /\ entries' = <<>>
    /\ Returns(t, 0)
    /\ UNCHANGED <<clients, nops, cvars, fvars, xvars>>

\* the caller goes on after a call has returned or raised
next_call(t) ==
    /\ th[t].pc \in {"done", "raised"}
    /\ th' = [th EXCEPT ![t] = Idle]
    /\ UNCHANGED <<entries, clients, hist, nops, cvars, fvars, xvars>>

\* ------------------------------------------------------------- HTTPAuth
\* HTTPAuth.apply_auth lines 61-100: the client after the call
apply_auth(c, a) ==
    LET c1 ==
            IF a.type = "basic"
            THEN IF a.username # "" /\ a.password # ""
                 THEN set_auth(c, "basic", a.username, a.password, "", "", "X-API-Key")
                 ELSE c
            ELSE IF a.type = "bearer"
            THEN IF a.token # "" THEN set_auth(c, "bearer", "", "", a.token, "", "X-API-Key")
                 ELSE c
            ELSE IF a.type = "api_key"
            THEN IF a.api_key # ""
                 THEN set_auth(c, "api_key", "", "", "", a.api_key, a.api_key_header)
                 ELSE c
            ELSE IF a.type = "token"
            THEN IF a.token # "" THEN set_auth(c, "token", "", "", a.token, "", "X-API-Key")
                 ELSE c
            ELSE IF a.type = "oauth2"
            THEN IF a.token # "" THEN set_auth(c, "bearer", "", "", a.token, "", "X-API-Key")
                 ELSE c
            ELSE c
    IN  set_headers(c1, parsed_mapping(a.custom_headers, NoHeaders))

\* requests.post calls to the token URL made by apply_auth: its oauth2 branch
\* (lines 85-90) never calls get_oauth2_token
apply_auth_posts(a) == 0

\* what the token endpoint answers to a client-credentials request
TokenAnswers == {"access_token", "no_token", "http_error"}

\* HTTPAuth.get_oauth2_token lines 106-130: (success, token or message)
get_oauth2_token(answer) ==
    IF answer = "access_token" THEN [ok |-> TRUE, token |-> "at1"]
    ELSE IF answer = "no_token" THEN [ok |-> FALSE, token |-> "No access token in response"]
    ELSE [ok |-> FALSE, token |-> "OAuth2 token request failed"]

\* auth configurations handed to apply_auth
AuthConfigs ==
    { [NoAuthConfig EXCEPT !.type = "api_key", !.api_key = "k1"],
      [NoAuthConfig EXCEPT !.type = "bearer", !.token = "tok"],
      [NoAuthConfig EXCEPT !.type = "token", !.token = "tok"],
      [NoAuthConfig EXCEPT !.type = "basic", !.username = "u", !.password = "p"],
      [NoAuthConfig EXCEPT !.type = "oauth2", !.client_id = "id", !.client_secret = "s",
                           !.oauth_token_url = "https://idp/token"],
      [NoAuthConfig EXCEPT !.type = "oauth2", !.client_id = "id", !.client_secret = "s",
                           !.oauth_token_url = "https://idp/token", !.token = "tok2"],
      [NoAuthConfig EXCEPT !.custom_headers = "{\"X-Trace\": \"t1\"}"] }

\* a node calls HTTPAuth.apply_auth(client, auth) on a client it holds
\* (http_post.py lines 66-67 and the other verb nodes)
call_apply_auth(t, cid, a) ==
    /\ At(t, "idle")
    /\ nops < MaxOps
    /\ cid \in DOMAIN clients
    /\ nops' = nops + 1
    /\ th' = [th EXCEPT ![t] = [Idle EXCEPT !.pc = "aa61", !.op = "apply_auth",
                                           !.client = cid, !.auth = a]]
    /\ UNCHANGED <<entries, clients, hist, cvars, fvars, xvars>>

\* apply_auth lines 61-100
aa_apply(t) ==
    /\ At(t, "aa61")
    /\ clients' = [clients EXCEPT ![th[t].client] = apply_auth(@, th[t].auth)]
    /\ th' = [th EXCEPT ![t].pc = "done", ![t].posted = apply_auth_posts(th[t].auth)]
    /\ hist' = Append(hist, Completed(t, "returned", 0, None))
    /\ UNCHANGED <<entries, nops, cvars, fvars, xvars>>

\* arguments of the create_session calls of the configuration runs
ConfigCfgs ==
    Cfgs \cup
    { [DefaultCfg EXCEPT !.auth_type = "basic", !.username = "u", !.password = "p"],
      [DefaultCfg EXCEPT !.auth_type = "token", !.token = "tok"],
      [DefaultCfg EXCEPT !.headers = "{\"Authorization\": \"Custom c\"}"],
      [DefaultCfg EXCEPT !.proxy_url = "http://q:2", !.timeout = 60] }

\* ------------------------------------------------------------- verb nodes
\* arguments of HTTPPost.make_request: headers and cookies texts (timeout, verify_ssl,
\* proxy_url as the defaults), and the auth configuration (NoAuthConfig: none given)
NodeCfgs ==
    { DefaultCfg,
      [DefaultCfg EXCEPT !.headers = "{\"X-Trace\": \"t1\"}", !.cookies = "{\"sid\": \"1\"}"],
      [DefaultCfg EXCEPT !.headers = "[1]", !.cookies = "not json"] }

NodeAuths ==
    { NoAuthConfig, [NoAuthConfig EXCEPT !.type = "bearer", !.token = "tok"] }

\* HTTPPost.make_request lines 57-63: the client of a call without a session
node_client(cfg) ==
    LET c == set_ssl_verify(set_timeout(NewClient(""), cfg.timeout), cfg.verify_ssl)
    IN  IF cfg.proxy_url # "" THEN set_proxy(c, cfg.proxy_url) ELSE c

\* a node that keeps headers, cookies and auth for the one request only
node_prepare_transient(c, a, cfg) == c

\* lines 66-84: auth (if one is given), headers and cookies written onto the client;
\* a text that json.loads or update() rejects is skipped (except Exception)
node_prepare(c, a, cfg) ==
    LET c1 == IF a # NoAuthConfig THEN apply_auth(c, a) ELSE c
    IN  set_cookies(set_headers(c1, parsed_mapping(cfg.headers, NoHeaders)),
                    parsed_mapping(cfg.cookies, NoCookies))

\* what client.post (line 129) does: it returns a response or, its retries exhausted,
\* raises
PostOutcomes == {"response", "raise"}

\* a verb node is called, with a session that create_session returned (session = the
\* index of its client) or with none
call_node_request(t, session, cfg, a) ==
    /\ At(t, "idle")
    /\ nops < MaxOps
    /\ session = 0 \/ \E i \in Live : entries[i].cid = session
    /\ nops' = nops + 1
    /\ th' = [th EXCEPT ![t] = [Idle EXCEPT !.pc = "vn51", !.op = "make_request",
                                           !.session = session, !.cfg = cfg, !.auth = a]]
    /\ UNCHANGED <<entries, clients, hist, cvars, fvars, xvars>>

\* lines 51-63: the session's client, or a new HTTPClient
vn_client(t) ==
    /\ At(t, "vn51")
    /\ IF th[t].session # 0
       THEN /\ th' = [th EXCEPT ![t].pc = "vn66", ![t].client = th[t].session]
            /\ UNCHANGED clients
       ELSE /\ Len(clients) < MaxClients
            /\ clients' = Append(clients, node_client(th[t].cfg))
            /\ th' = [th EXCEPT ![t].pc = "vn66", ![t].client = Len(clients) + 1]
    /\ UNCHANGED <<entries, hist, nops, cvars, fvars, xvars>>

\* lines 66-84
vn_prepare(t) ==
    /\ At(t, "vn66")
    /\ clients' = [clients EXCEPT ![th[t].client] = node_prepare(@, th[t].auth, th[t].cfg)]
    /\ Goto(t, "vn129")
    /\ UNCHANGED <<entries, hist, nops, cvars, fvars, xvars>>

\* line 129: client.post(url, **request_kwargs); the request carries the headers,
\* cookies and credential of the client's requests.Session
vn_post(t) ==
    /\ At(t, "vn129")
    /\ \E o \in PostOutcomes :
          th' = [th EXCEPT ![t].pc = IF o = "response" THEN "vn143" ELSE "vn148",
                           ![t].sent = [headers |-> clients[th[t].client].headers,
                                        cookies |-> clients[th[t].client].cookies,
                                        auth |-> clients[th[t].client].auth]]
    /\ UNCHANGED <<entries, clients, hist, nops, cvars, fvars, xvars>>

\* lines 143-146: close the client if there is no session, return the response
vn_close_return(t) ==
    /\ At(t, "vn143")
    /\ clients' = IF th[t].session = 0
                  THEN [clients EXCEPT ![th[t].client].closed = TRUE]
                  ELSE clients
    /\ th' = [th EXCEPT ![t].pc = "done", ![t].status = 200]
    /\ hist' = Append(hist, Completed(t, "returned", 0, None))
    /\ UNCHANGED <<entries, nops, cvars, fvars, xvars>>

\* lines 148-151: the handler returns (0, "{}", error_msg, error_msg)
vn_except(t) ==
    /\ At(t, "vn148")
    /\ th' = [th EXCEPT ![t].pc = "done", ![t].status = 0]
    /\ hist' = Append(hist, Completed(t, "returned", 0, "Exception"))
    /\ UNCHANGED <<entries, clients, nops, cvars, fvars, xvars>>

\* the statements of a call in progress, and the caller's move to its next call
Statement(t) ==
    \/ cs_test(t)
    \/ cs_construct(t)
    \/ cs_store(t)
    \/ cs_lookup(t)
    \/ cs_configure(t)
    \/ cs_return(t)
    \/ cl_test(t)
    \/ cl_close(t)
    \/ cl_del(t)
    \/ ca_next(t)
    \/ ca_clear(t)
    \/ next_call(t)

\* ------------------------------------------------------------ form bodies
NumSlots == 3       \* form_data slots given to concat_form_data (the node has 5)
NumItems == 3       \* item slots given to create_form_data (the node has 10)

\* a dict, in insertion order: a sequence of [k, v] entries with distinct keys
NoItems == << >>
ItemKeys(m) == { m[j].k : j \in DOMAIN m }
ItemGet(m, key) == m[CHOOSE j \in DOMAIN m : m[j].k = key].v

\* m[key] = value
item_set(m, key, value) ==
    IF key \in ItemKeys(m)
    THEN [j \in DOMAIN m |-> IF m[j].k = key THEN [k |-> key, v |-> value] ELSE m[j]]
    ELSE Append(m, [k |-> key, v |-> value])

\* str(suffix)
Numeral(n) == <<"1", "2", "3", "4", "5", "6", "7", "8", "9">>[n]

\* f"{key}_{suffix}"
Suffixed(key, suffix) == key \o "_" \o Numeral(suffix)

\* a probe that does not look whether the suffixed key is taken
new_key_first_suffix(m, key, suffix) == Suffixed(key, suffix)

\* concat_form_data lines 50-54 (64-68 for files): the first key_suffix not in the map
RECURSIVE new_key(_, _, _)
new_key(m, key, suffix) ==
    IF Suffixed(key, suffix) \in ItemKeys(m)
    THEN new_key(m, key, suffix + 1)
    ELSE Suffixed(key, suffix)

\* a merge that lets the earlier entry win under overwrite_duplicates
merge_entry_keeps_first(m, key, value, overwrite_duplicates) ==
    IF key \in ItemKeys(m) /\ ~overwrite_duplicates
    THEN item_set(m, new_key(m, key, 1), value)
    ELSE IF key \in ItemKeys(m) THEN m ELSE item_set(m, key, value)

\* a merge that overwrites whatever the flag says
merge_entry_ignores_flag(m, key, value, overwrite_duplicates) ==
    item_set(m, key, value)

\* concat_form_data lines 48-57 (62-71 for files): one incoming entry
merge_entry(m, key, value, overwrite_duplicates) ==
    IF key \in ItemKeys(m) /\ ~overwrite_duplicates
    THEN item_set(m, new_key(m, key, 1), value)
    ELSE item_set(m, key, value)

\* concat_form_data lines 47-57 and 61-71: the entries of one dict, in its order
RECURSIVE merge_items(_, _, _)
merge_items(m, incoming, overwrite_duplicates) ==
    IF incoming = NoItems THEN m
    ELSE merge_items(merge_entry(m, Head(incoming).k, Head(incoming).v, overwrite_duplicates),
                     Tail(incoming), overwrite_duplicates)

\* a form body; given = FALSE stands for a None argument
FormBody(data, files) == [given |-> TRUE, data |-> data, files |-> files]
NoForm == [given |-> FALSE, data |-> NoItems, files |-> NoItems]
EmptyForm == FormBody(NoItems, NoItems)

\* concat_form_data lines 41-71: one form_data of form_data_list
merge_form(combined_data, form_data, overwrite_duplicates) ==
    IF ~form_data.given THEN combined_data
    ELSE FormBody(merge_items(combined_data.data, form_data.data, overwrite_duplicates),
                  merge_items(combined_data.files, form_data.files, overwrite_duplicates))

\* concat_form_data lines 36-73 as a function of its arguments
RECURSIVE concat_from(_, _, _)
concat_from(combined_data, form_data_list, overwrite_duplicates) ==
    IF form_data_list = << >> THEN combined_data
    ELSE concat_from(merge_form(combined_data, Head(form_data_list), overwrite_duplicates),
                     Tail(form_data_list), overwrite_duplicates)

concat_form_data(form_data_list, overwrite_duplicates) ==
    concat_from(EmptyForm, form_data_list, overwrite_duplicates)

\* the file tuples (filename, bytes, content_type) of the bodies that are merged
File1 == <<"a.png", "png1", "image/png">>
File2 == <<"b.bin", "bin2", "application/octet-stream">>

DataDicts ==
    { NoItems,
      <<[k |-> "a", v |-> "x"]>>,
      <<[k |-> "a", v |-> "y"], [k |-> "a_1", v |-> "x"]>>,
      <<[k |-> "a_1", v |-> "y"], [k |-> "a", v |-> "x"]>> }

FileDicts ==
    { NoItems, <<[k |-> "a", v |-> File1]>>, <<[k |-> "a", v |-> File2]>> }

FormBodies == { FormBody(d, f) : d \in DataDicts, f \in FileDicts }

\* form_data1 is a required input, form_data2.. are optional and default to None
FormLists ==
    { fl \in [1..NumSlots -> FormBodies \cup {NoForm}] : fl[1].given }

CfIdle == [pc |-> "idle", form_data_list |-> << >>, overwrite_duplicates |-> TRUE,
           slot |-> 0, pos |-> 0, combined_data |-> EmptyForm]

\* concat_form_data lines 31-39
call_concat_form_data ==
    /\ cf.pc = "idle"
    /\ \E form_data_list \in FormLists, overwrite_duplicates \in BOOLEAN :
           cf' = [pc |-> "l41", form_data_list |-> form_data_list,
                  overwrite_duplicates |-> overwrite_duplicates,
                  slot |-> 1, pos |-> 1, combined_data |-> EmptyForm]
    /\ UNCHANGED <<fd, cvars, rvars, xvars>>

\* a loop over the forms that ends at the first None
cf_next_form_stops_at_none ==
    /\ cf.pc = "l41"
    /\ cf.slot <= Len(cf.form_data_list)
    /\ cf' = IF cf.form_data_list[cf.slot].given
             THEN [cf EXCEPT !.pc = "l47", !.pos = 1]
             ELSE [cf EXCEPT !.slot = Len(cf.form_data_list) + 1]
    /\ UNCHANGED <<fd, cvars, rvars, xvars>>

\* lines 41-43: the next form_data of the list, skipped when it is None
cf_next_form ==
    /\ cf.pc = "l41"
    /\ cf.slot <= Len(cf.form_data_list)
    /\ cf' = IF cf.form_data_list[cf.slot].given
             THEN [cf EXCEPT !.pc = "l47", !.pos = 1]
             ELSE [cf EXCEPT !.slot = @ + 1]
    /\ UNCHANGED <<fd, cvars, rvars, xvars>>

\* lines 47-57: one entry of data_fields
cf_data_entry ==
    /\ cf.pc = "l47"
    /\ cf.pos <= Len(cf.form_data_list[cf.slot].data)
    /\ LET e == cf.form_data_list[cf.slot].data[cf.pos]
       IN  cf' = [cf EXCEPT !.combined_data.data =
                                merge_entry(@, e.k, e.v, cf.overwrite_duplicates),
                            !.pos = @ + 1]
    /\ UNCHANGED <<fd, cvars, rvars, xvars>>

\* line 47 exhausted, on to line 61
cf_data_done ==
    /\ cf.pc = "l47"
    /\ cf.pos > Len(cf.form_data_list[cf.slot].data)
    /\ cf' = [cf EXCEPT !.pc = "l61", !.pos = 1]
    /\ UNCHANGED <<fd, cvars, rvars, xvars>>

\* lines 61-71: one entry of file_fields
cf_file_entry ==
    /\ cf.pc = "l61"
    /\ cf.pos <= Len(cf.form_data_list[cf.slot].files)
    /\ LET e == cf.form_data_list[cf.slot].files[cf.pos]
       IN  cf' = [cf EXCEPT !.combined_data.files =
                                merge_entry(@, e.k, e.v, cf.overwrite_duplicates),
                            !.pos = @ + 1]
    /\ UNCHANGED <<fd, cvars, rvars, xvars>>

\* line 61 exhausted, back to line 41
cf_files_done ==
    /\ cf.pc = "l61"
    /\ cf.pos > Len(cf.form_data_list[cf.slot].files)
    /\ cf' = [cf EXCEPT !.pc = "l41", !.slot = @ + 1, !.pos = 1]
    /\ UNCHANGED <<fd, cvars, rvars, xvars>>

\* line 73
cf_return ==
    /\ cf.pc = "l41"
    /\ cf.slot > Len(cf.form_data_list)
    /\ cf' = [cf EXCEPT !.pc = "returned"]
    /\ UNCHANGED <<fd, cvars, rvars, xvars>>

\* ------------------------------------------------------------- form items
ItemNames == {"f", "g"}

\* the file system that create_form_data reads
FilePaths == {"ok.bin", "locked.bin", "gone.bin"}
path_exists(file_path) == file_path \in {"ok.bin", "locked.bin"}
can_read(file_path) == file_path = "ok.bin"
FileBytes == "bin"
PngBytes == "png"
NoBytes == ""

NoItem == [given |-> FALSE, type |-> "text", name |-> "", value |-> "", file_path |-> "",
           filename |-> "", content_type |-> "", data |-> NoBytes]

\* HTTPFormTextItem.create_item
TextItem(name, value) == [NoItem EXCEPT !.given = TRUE, !.name = name, !.value = value]

\* HTTPFormFileItem.create_item
FileItem(name, file_path) ==
    [NoItem EXCEPT !.given = TRUE, !.type = "file", !.name = name, !.file_path = file_path,
                   !.filename = file_path, !.content_type = "application/octet-stream"]

\* HTTPFormImageItem.create_item, and an image_bytes item that carries no bytes
BytesItem(name, data) ==
    [NoItem EXCEPT !.given = TRUE, !.type = "image_bytes", !.name = name, !.data = data,
                   !.filename = "image.png", !.content_type = "image/png"]

FormItems ==
    { TextItem(n, "v") : n \in ItemNames }
        \cup { FileItem(n, p) : n \in ItemNames, p \in FilePaths }
        \cup { BytesItem(n, d) : n \in ItemNames, d \in {PngBytes, NoBytes} }

ItemLists == [1..NumItems -> FormItems \cup {NoItem}]

\* a composer that files every image_bytes item, with or without bytes
add_item_files_empty_bytes(form_data, item) ==
    IF item.type = "text"
    THEN [form_data EXCEPT !.data = item_set(@, item.name, item.value)]
    ELSE IF item.type = "file"
    THEN IF path_exists(item.file_path)
         THEN IF can_read(item.file_path)
              THEN [form_data EXCEPT !.files =
                       item_set(@, item.name, <<item.filename, FileBytes, item.content_type>>)]
              ELSE [form_data EXCEPT !.data = item_set(@, item.name, "Error reading file")]
         ELSE [form_data EXCEPT !.data = item_set(@, item.name, "File not found")]
    ELSE [form_data EXCEPT !.files =
             item_set(@, item.name, <<item.filename, item.data, item.content_type>>)]

\* create_form_data lines 257-287: one item written into form_data
add_item(form_data, item) ==
    IF item.type = "text"
    THEN [form_data EXCEPT !.data = item_set(@, item.name, item.value)]
    ELSE IF item.type = "file"
    THEN IF path_exists(item.file_path)
         THEN IF can_read(item.file_path)
              THEN [form_data EXCEPT !.files =
                       item_set(@, item.name, <<item.filename, FileBytes, item.content_type>>)]
              ELSE [form_data EXCEPT !.data = item_set(@, item.name, "Error reading file")]
         ELSE [form_data EXCEPT !.data = item_set(@, item.name, "File not found")]
    ELSE IF item.type = "image_bytes"
    THEN IF item.data # NoBytes
         THEN [form_data EXCEPT !.files =
                  item_set(@, item.name, <<item.filename, item.data, item.content_type>>)]
         ELSE [form_data EXCEPT !.data = item_set(@, item.name, "Error: No image data")]
    ELSE form_data

FdIdle == [pc |-> "idle", items |-> << >>, pos |-> 0, form_data |-> EmptyForm]

\* create_form_data lines 247-250
call_create_form_data ==
    /\ fd.pc = "idle"
    /\ \E items \in ItemLists :
           fd' = [pc |-> "l253", items |-> items, pos |-> 1, form_data |-> EmptyForm]
    /\ UNCHANGED <<cf, cvars, rvars, xvars>>

\* lines 253-287: one pass of the loop over the items, a None item skipped
fd_item ==
    /\ fd.pc = "l253"
    /\ fd.pos <= Len(fd.items)
    /\ fd' = IF fd.items[fd.pos].given
             THEN [fd EXCEPT !.form_data = add_item(@, fd.items[fd.pos]), !.pos = @ + 1]
             ELSE [fd EXCEPT !.pos = @ + 1]
    /\ UNCHANGED <<cf, cvars, rvars, xvars>>

\* line 289
fd_return ==
    /\ fd.pc = "l253"
    /\ fd.pos > Len(fd.items)
    /\ fd' = [fd EXCEPT !.pc = "returned"]
    /\ UNCHANGED <<cf, cvars, rvars, xvars>>

InitForms == cf = CfIdle /\ fd = FdIdle

\* -------------------------------------------------------- JSON field extraction
MaxParts == 3       \* segments of a field path

\* JSON values as json.loads gives them: None, numbers, dicts (entries in order), lists
JNull == [t |-> "null"]
JNum(n) == [t |-> "num", n |-> n]
JStr(text) == [t |-> "str", s |-> text]
JDict(items) == [t |-> "dict", items |-> items]
JList(elems) == [t |-> "list", elems |-> elems]
\* a json_data text that json.loads rejects
NotJson == [t |-> "invalid"]

is_none(v) == v.t = "null"
is_dict(v) == v.t = "dict"
is_list(v) == v.t = "list"

\* dict.get(part, None)
dict_get(v, part) == IF part \in ItemKeys(v.items) THEN ItemGet(v.items, part) ELSE JNull

\* the documents handed to the extraction nodes
Documents ==
    { JDict(<<[k |-> "a", v |-> JDict(<<[k |-> "b", v |-> JList(<<JNum(42), JNum(43)>>)]>>)]>>),
      JDict(<<[k |-> "a", v |-> JNull], [k |-> "$k", v |-> JNum(7)]>>),
      JDict(<<[k |-> "a", v |-> JDict(<<[k |-> "b", v |-> JNull]>>)], [k |-> "0", v |-> JNum(9)]>>),
      JList(<<JDict(<<[k |-> "a", v |-> JNum(1)]>>), JNull>>),
      JNull,
      NotJson }

\* the segments that split('.') cuts a field path into
Segments == {"a", "b", "x", "0", "5", "-1", "$", "$k"}

\* part.startswith('$')
startswith_dollar(part) == part \in {"$", "$k"}
\* part.isdigit()
isdigit(part) == part \in {"0", "5"}
\* int(part) succeeds
int_parses(part) == part \in {"0", "5", "-1"}
\* int(part)
int_of(part) == IF part = "0" THEN 0 ELSE IF part = "5" THEN 5 ELSE -1

\* field paths, already split: path.split('.') has at least one part
Paths == UNION { [1..n -> Segments] : n \in 1..MaxParts }

Defaults == {"", "dflt"}

\* `[default] if default else []`
default_results(default) == IF default # "" THEN <<JStr(default)>> ELSE << >>

\* current[index] if 0 <= index < len(current) else None
list_get(v, index) == IF 0 <= index /\ index < Len(v.elems) THEN v.elems[index + 1] ELSE JNull

\* a traversal step that treats '$' like any other segment
extract_step_no_dollar_skip(current, part) ==
    IF is_dict(current) THEN [go |-> TRUE, current |-> dict_get(current, part)]
    ELSE IF is_list(current) /\ isdigit(part)
    THEN [go |-> TRUE, current |-> list_get(current, int_of(part))]
    ELSE [go |-> FALSE, current |-> current]

\* a traversal that goes on through a None
unresolved_never(current) == FALSE

\* `if current is None` of lines 204 and 207 (241 and 244 in _nested_extract)
unresolved(current) == is_none(current)

\* a traversal step that clamps an index past the end to the last element
extract_step_clamps_index(current, part) ==
    IF startswith_dollar(part) THEN [go |-> TRUE, current |-> current]
    ELSE IF is_dict(current) THEN [go |-> TRUE, current |-> dict_get(current, part)]
    ELSE IF is_list(current) /\ isdigit(part)
    THEN [go |-> TRUE,
          current |-> IF int_of(part) >= Len(current.elems) /\ Len(current.elems) > 0
                      THEN current.elems[Len(current.elems)]
                      ELSE list_get(current, int_of(part))]
    ELSE [go |-> FALSE, current |-> current]

\* _simple_extract lines 193-202: one part applied to current; go = FALSE is the
\* `return` of line 202
extract_step(current, part) ==
    IF startswith_dollar(part) THEN [go |-> TRUE, current |-> current]
    ELSE IF is_dict(current) THEN [go |-> TRUE, current |-> dict_get(current, part)]
    ELSE IF is_list(current) /\ isdigit(part)
    THEN [go |-> TRUE, current |-> list_get(current, int_of(part))]
    ELSE [go |-> FALSE, current |-> current]

\* _nested_extract lines 229-239: the same step without the '$' test (the pattern of
\* line 226 yields no empty part)
nested_step(current, part) ==
    IF is_dict(current) THEN [go |-> TRUE, current |-> dict_get(current, part)]
    ELSE IF is_list(current) /\ isdigit(part)
    THEN [go |-> TRUE, current |-> list_get(current, int_of(part))]
    ELSE [go |-> FALSE, current |-> current]

\* extract_field lines 148-177: the count reported for results
count_of(results, default) == IF results = << >> THEN 0 ELSE Len(results)

\* get_json_field line 67: the loop ran to its end
node_found(current) == TRUE

\* get_json_field lines 44-56: one part applied to current_value; go = FALSE is one of
\* the returns of lines 52, 54 and 56
node_step(current, part) ==
    IF is_dict(current) /\ part \in ItemKeys(current.items)
    THEN [go |-> TRUE, current |-> ItemGet(current.items, part)]
    ELSE IF is_list(current)
    THEN IF int_parses(part) /\ 0 <= int_of(part) /\ int_of(part) < Len(current.elems)
         THEN [go |-> TRUE, current |-> current.elems[int_of(part) + 1]]
         ELSE [go |-> FALSE, current |-> current]
    ELSE [go |-> FALSE, current |-> current]

NoResult == [value |-> JNull, count |-> 0, found |-> FALSE, error |-> FALSE]

JxIdle == [pc |-> "idle", fn |-> "none", data |-> JNull, parts |-> << >>, default |-> "",
           pos |-> 0, current |-> JNull, results |-> << >>, resolved |-> FALSE,
           result |-> NoResult]

InitExtract == jx = JxIdle

\* HTTPGetJSONField.extract_field with extraction_method simple or nested, lines 113-120
call_extract_field ==
    /\ jx.pc = "idle"
    /\ \E data \in Documents, parts \in Paths, default \in Defaults,
          extraction_method \in {"simple", "nested"} :
           jx' = [JxIdle EXCEPT !.pc = "l120", !.fn = extraction_method, !.data = data,
                                !.parts = parts, !.default = default]
    /\ UNCHANGED <<hg, cvars, rvars, fvars>>

\* line 120 and lines 139-145, or the handler of lines 179-181
xf_loads ==
    /\ jx.pc = "l120"
    /\ jx' = IF jx.data = NotJson
             THEN [jx EXCEPT !.pc = "returned",
                             !.result = [NoResult EXCEPT !.value = JStr("JSON parsing error"),
                                                         !.error = TRUE]]
             ELSE [jx EXCEPT !.pc = IF jx.fn = "simple" THEN "l192" ELSE "l228",
                             !.current = jx.data, !.pos = 1]
    /\ UNCHANGED <<hg, cvars, rvars, fvars>>

\* _simple_extract lines 192-205: one part of the path
se_part ==
    /\ jx.pc = "l192"
    /\ jx.pos <= Len(jx.parts)
    /\ LET st == extract_step(jx.current, jx.parts[jx.pos])
       IN  jx' = IF st.go /\ (startswith_dollar(jx.parts[jx.pos]) \/ ~unresolved(st.current))
                 THEN [jx EXCEPT !.current = st.current, !.pos = @ + 1]
                 ELSE [jx EXCEPT !.pc = "l148", !.results = default_results(jx.default)]
    /\ UNCHANGED <<hg, cvars, rvars, fvars>>

\* _simple_extract line 207
se_end ==
    /\ jx.pc = "l192"
    /\ jx.pos > Len(jx.parts)
    /\ jx' = IF ~unresolved(jx.current)
             THEN [jx EXCEPT !.pc = "l148", !.results = <<jx.current>>, !.resolved = TRUE]
             ELSE [jx EXCEPT !.pc = "l148", !.results = default_results(jx.default)]
    /\ UNCHANGED <<hg, cvars, rvars, fvars>>

\* _nested_extract lines 228-242: one part of the path
ne_part ==
    /\ jx.pc = "l228"
    /\ jx.pos <= Len(jx.parts)
    /\ LET st == nested_step(jx.current, jx.parts[jx.pos])
       IN  jx' = IF st.go /\ ~unresolved(st.current)
                 THEN [jx EXCEPT !.current = st.current, !.pos = @ + 1]
                 ELSE [jx EXCEPT !.pc = "l148", !.results = default_results(jx.default)]
    /\ UNCHANGED <<hg, cvars, rvars, fvars>>

\* _nested_extract line 244
ne_end ==
    /\ jx.pc = "l228"
    /\ jx.pos > Len(jx.parts)
    /\ jx' = IF ~unresolved(jx.current)
             THEN [jx EXCEPT !.pc = "l148", !.results = <<jx.current>>, !.resolved = TRUE]
             ELSE [jx EXCEPT !.pc = "l148", !.results = default_results(jx.default)]
    /\ UNCHANGED <<hg, cvars, rvars, fvars>>

\* extract_field lines 148-177: (value, formatted_value, count)
xf_results ==
    /\ jx.pc = "l148"
    /\ jx' = IF jx.results = << >>
             THEN [jx EXCEPT !.pc = "returned",
                             !.result = [NoResult EXCEPT !.value = JStr(jx.default)]]
             ELSE [jx EXCEPT !.pc = "returned",
                             !.result = [NoResult EXCEPT !.value = jx.results[1],
                                            !.count = count_of(jx.results, jx.default)]]
    /\ UNCHANGED <<hg, cvars, rvars, fvars>>

\* HTTPGetJSONFieldNode.get_json_field lines 35-38
call_get_json_field ==
    /\ jx.pc = "idle"
    /\ \E data \in Documents, parts \in Paths, default \in Defaults :
           jx' = [JxIdle EXCEPT !.pc = "n38", !.fn = "node", !.data = data,
                                !.parts = parts, !.default = default]
    /\ UNCHANGED <<hg, cvars, rvars, fvars>>

\* lines 38-42, or the handler of lines 69-72
gj_loads ==
    /\ jx.pc = "n38"
    /\ jx' = IF jx.data = NotJson
             THEN [jx EXCEPT !.pc = "returned",
                             !.result = [NoResult EXCEPT !.value = JStr(jx.default),
                                                         !.error = TRUE]]
             ELSE [jx EXCEPT !.pc = "n43", !.current = jx.data, !.pos = 1]
    /\ UNCHANGED <<hg, cvars, rvars, fvars>>

\* lines 43-56: one part of the path
gj_part ==
    /\ jx.pc = "n43"
    /\ jx.pos <= Len(jx.parts)
    /\ LET st == node_step(jx.current, jx.parts[jx.pos])
       IN  jx' = IF st.go
                 THEN [jx EXCEPT !.current = st.current, !.pos = @ + 1]
                 ELSE [jx EXCEPT !.pc = "returned",
                                 !.result = [NoResult EXCEPT !.value = JStr(jx.default)]]
    /\ UNCHANGED <<hg, cvars, rvars, fvars>>

\* lines 58-67
gj_end ==
    /\ jx.pc = "n43"
    /\ jx.pos > Len(jx.parts)
    /\ jx' = [jx EXCEPT !.pc = "returned", !.resolved = TRUE,
                        !.result = [NoResult EXCEPT !.value = jx.current,
                                                    !.found = node_found(jx.current)]]
    /\ UNCHANGED <<hg, cvars, rvars, fvars>>

\* ------------------------------------------------------------ HTTPGetNode
MaxRetryCount == 3      \* largest retry_count handed to http_get (the node allows 5)

\* headers / params texts handed to http_get: none, a JSON object, text that is not
\* JSON, JSON that is not an object
AuxTexts == {"", "{\"X-Trace\": \"t1\"}", "not json", "[1]"}

\* lines 68-73 and 76-82: json.loads raised JSONDecodeError, the piece is skipped
aux_skipped(text) == text # "" /\ json_loads(text).raises
\* lines 71 and 79-80: dict.update / item assignment on a value that is no dict raise
\* TypeError, which only the handler of line 119 catches
aux_breaks(text) == text # "" /\ ~json_loads(text).raises /\ ~json_loads(text).isdict
\* the piece is sent with the request
aux_applied(text) == text # "" /\ ~json_loads(text).raises /\ json_loads(text).isdict

\* what requests.get can do: a response with its status, or an exception
GetOutcomes == [kind : {"response"}, status : StatusCodes]
                  \cup [kind : {"Timeout", "ConnectionError"}, status : {0}]

\* line 103
is_success(status_code) == 200 <= status_code /\ status_code < 300

NoGetResult == [status_code |-> 0, success |-> FALSE, error |-> ""]

HgIdle == [pc |-> "idle", headers |-> "", params |-> "", retry_count |-> 1, attempt |-> 0,
           last_error |-> "", log |-> << >>, result |-> NoGetResult]

InitGet == hg = HgIdle

\* http_get lines 58-63
call_http_get ==
    /\ hg.pc = "idle"
    /\ \E headers \in AuxTexts, params \in AuxTexts, retry_count \in 1..MaxRetryCount :
           hg' = [HgIdle EXCEPT !.pc = "l65", !.headers = headers, !.params = params,
                                !.retry_count = retry_count]
    /\ UNCHANGED <<jx, cvars, rvars, fvars>>

\* the request of lines 86-91 as it is sent
GetEvent(o) ==
    [kind |-> o.kind, status |-> o.status,
     headers_sent |-> aux_applied(hg.headers), params_sent |-> aux_applied(hg.params)]

\* where the loop goes after a failed pass: lines 123-125
after_failed_pass(error, sent) ==
    [hg EXCEPT !.last_error = error, !.log = sent,
               !.pc = IF hg.attempt < hg.retry_count - 1 THEN "l125" ELSE "l65",
               !.attempt = IF hg.attempt < hg.retry_count - 1 THEN @ ELSE @ + 1]

\* one pass of the loop that returns: lines 66-107, a 2xx response
hg_pass_returns ==
    /\ hg.pc = "l65"
    /\ hg.attempt < hg.retry_count
    /\ ~aux_breaks(hg.headers) /\ ~aux_breaks(hg.params)
    /\ \E o \in GetOutcomes :
          /\ o.kind = "response" /\ is_success(o.status)
          /\ hg' = [hg EXCEPT !.pc = "returned", !.log = Append(@, GetEvent(o)),
                              !.result = [status_code |-> o.status, success |-> TRUE,
                                          error |-> ""]]
    /\ UNCHANGED <<jx, cvars, rvars, fvars>>

\* one pass of the loop that does not return: lines 66-121, a TypeError while the
\* headers or params are prepared, a response that is not 2xx, or a transport exception
hg_pass_fails ==
    /\ hg.pc = "l65"
    /\ hg.attempt < hg.retry_count
    /\ IF aux_breaks(hg.headers) \/ aux_breaks(hg.params)
       THEN hg' = after_failed_pass("HTTP Get Error", hg.log)
       ELSE \E o \in GetOutcomes :
               /\ ~(o.kind = "response" /\ is_success(o.status))
               /\ hg' = after_failed_pass(IF o.kind = "response" THEN "HTTP error" ELSE o.kind,
                                          Append(hg.log, GetEvent(o)))
    /\ UNCHANGED <<jx, cvars, rvars, fvars>>

\* line 125: time.sleep(retry_delay)
hg_sleep ==
    /\ hg.pc = "l125"
    /\ hg' = [hg EXCEPT !.pc = "l65", !.attempt = @ + 1]
    /\ UNCHANGED <<jx, cvars, rvars, fvars>>

\* lines 127-128: (last_error, "{}", 0, False, workflow_id)
hg_all_failed ==
    /\ hg.pc = "l65"
    /\ hg.attempt >= hg.retry_count
    /\ hg' = [hg EXCEPT !.pc = "returned",
                        !.result = [status_code |-> 0, success |-> FALSE,
                                    error |-> hg.last_error]]
    /\ UNCHANGED <<jx, cvars, rvars, fvars>>

vars == <<cvars, rvars, fvars, xvars>>

Init == InitClient /\ InitRegistry /\ InitForms /\ InitExtract /\ InitGet

\* one HTTPClient serving post / make_request calls
Spec == Init /\ [][NextClient]_vars

\* the session manager called by one thread: every call runs to its end before the next
NextSequential ==
    \/ \E n \in Names, cfg \in Cfgs : call_create_session(1, n, cfg)
    \/ \E n \in Names : call_close_session(1, n)
    \/ call_close_all_sessions(1)
    \/ Statement(1)

SpecSequential == Init /\ [][NextSequential]_vars

\* the session manager called by NumThreads threads, interleaved statement by statement
NextThreads ==
    \E t \in Threads :
        \/ \E n \in Names : call_create_session(t, n, DefaultCfg)
        \/ \E n \in Names : call_close_session(t, n)
        \/ call_close_all_sessions(t)
        \/ Statement(t)

SpecThreads == Init /\ [][NextThreads]_vars

\* one session, configured and re-configured by create_session and by apply_auth calls
\* of the nodes that use it, one call after another
NextConfig ==
    \/ \E cfg \in ConfigCfgs : call_create_session(1, "a", cfg)
    \/ cs_test(1)
    \/ cs_construct(1)
    \/ cs_store(1)
    \/ cs_lookup(1)
    \/ cs_configure(1)
    \/ cs_return(1)
    \/ \E cid \in DOMAIN clients, a \in AuthConfigs : call_apply_auth(1, cid, a)
    \/ aa_apply(1)
    \/ next_call(1)

SpecConfig == Init /\ [][NextConfig]_vars

\* verb-node calls, with and without the session that create_session returned, one
\* call after another
NextNodes ==
    \/ call_create_session(1, "a", DefaultCfg)
    \/ cs_test(1)
    \/ cs_construct(1)
    \/ cs_store(1)
    \/ cs_lookup(1)
    \/ cs_configure(1)
    \/ cs_return(1)
    \/ \E session \in 0..MaxClients, cfg \in NodeCfgs, a \in NodeAuths :
          call_node_request(1, session, cfg, a)
    \/ vn_client(1)
    \/ vn_prepare(1)
    \/ vn_post(1)
    \/ vn_close_return(1)
    \/ vn_except(1)
    \/ next_call(1)

SpecNodes == Init /\ [][NextNodes]_vars

\* one concat_form_data call, run entry by entry
NextConcat ==
    \/ call_concat_form_data
    \/ cf_next_form
    \/ cf_data_entry
    \/ cf_data_done
    \/ cf_file_entry
    \/ cf_files_done
    \/ cf_return

SpecConcat == Init /\ [][NextConcat]_vars

\* one create_form_data call, run item by item
NextForm ==
    \/ call_create_form_data
    \/ fd_item
    \/ fd_return

SpecForm == Init /\ [][NextForm]_vars

\* one field extraction, by extract_field or by get_json_field, run part by part
NextExtract ==
    \/ call_extract_field
    \/ xf_loads
    \/ se_part
    \/ se_end
    \/ ne_part
    \/ ne_end
    \/ xf_results
    \/ call_get_json_field
    \/ gj_loads
    \/ gj_part
    \/ gj_end

SpecExtract == Init /\ [][NextExtract]_vars

\* one http_get call with its own retry loop
NextGet ==
    \/ call_http_get
    \/ hg_pass_returns
    \/ hg_pass_fails
    \/ hg_sleep
    \/ hg_all_failed

SpecGet == Init /\ [][NextGet]_vars

\* ------------------------------------------------ make_request: the claims
RequestIdx == {i \in DOMAIN log : log[i].ev = "request"}
SleepIdx == {i \in DOMAIN log : log[i].ev = "sleep"}
NumRequests == Cardinality(RequestIdx)
NumSleeps == Cardinality(SleepIdx)
Finished == pc \in {"returned", "raised"}

\* every sleep stands between two transport calls
SleepsBetweenRequests ==
    \A i \in SleepIdx :
        /\ i > 1 /\ i < Len(log)
        /\ log[i - 1].ev = "request"
        /\ log[i + 1].ev = "request"

\* C1: with max_retries = N >= 1 and every transport call failing, make_request
\* makes exactly N transport calls and N-1 sleeps, each sleep between two
\* consecutive attempts and none after the N-th attempt
C1_ExactlyNAttempts ==
    (pc = "raised" /\ max_retries >= 1) =>
        /\ NumRequests = max_retries
        /\ \A i \in RequestIdx : log[i].kind = "raise"
        /\ NumSleeps = max_retries - 1
        /\ SleepsBetweenRequests
        /\ log[Len(log)].ev = "request"

C1_Witness ==
    /\ pc = "raised"
    /\ max_retries = MaxRetries
    /\ NumRequests = MaxRetries
    /\ NumSleeps = MaxRetries - 1

\* C2: if attempts 1..k-1 fail and attempt k <= N returns a response, make_request
\* returns that response's status after exactly k transport calls and k-1 sleeps,
\* the successful call being the last one
C2_ReturnsAtFirstResponse ==
    pc = "returned" =>
        /\ NumRequests >= 1 /\ NumRequests <= max_retries
        /\ log[Len(log)].ev = "request"
        /\ log[Len(log)].kind = "response"
        /\ outcome.kind = "return"
        /\ outcome.status = log[Len(log)].status
        /\ \A i \in RequestIdx : i < Len(log) => log[i].kind = "raise"
        /\ NumSleeps = NumRequests - 1
        /\ SleepsBetweenRequests

C2_Witness ==
    /\ pc = "returned"
    /\ max_retries = 3
    /\ NumRequests = 3
    /\ NumSleeps = 2
    /\ log[1].exc = "Timeout" /\ log[3].exc = "Timeout"
    /\ outcome.status = 200

\* C6: a response of any status ends make_request at once: it is the last entry
\* of the log (no sleep, no further attempt) and the call returns its status
C6_NoRetryOnStatus ==
    \A i \in RequestIdx :
        log[i].kind = "response" =>
            /\ i = Len(log)
            /\ pc = "returned"
            /\ outcome.kind = "return"
            /\ outcome.status = log[i].status

C6_Witness ==
    /\ pc = "returned"
    /\ max_retries >= 2
    /\ Len(log) = 1
    /\ log[1].kind = "response"
    /\ log[1].status = 500
    /\ outcome.status = 500

\* C7: a malformed URL is reported after a single attempt, without a sleep,
\* for every max_retries >= 1
C7_MalformedUrlNotRetried ==
    (req.url = "not a url" /\ max_retries >= 1) =>
        /\ NumRequests <= 1
        /\ NumSleeps = 0
        /\ (Finished => NumRequests = 1)

\* C8: the sleep after failed attempt number k (counting from 1, k = 1..N-1)
\* lasts retry_delay * k
C8_LinearBackoff ==
    \A i \in SleepIdx :
        /\ i > 1
        /\ log[i - 1].ev = "request"
        /\ log[i - 1].kind = "raise"
        /\ LET k == Cardinality({j \in RequestIdx : j < i})
           IN /\ k >= 1 /\ k <= max_retries - 1
              /\ log[i].secs = retry_delay * k

C8_Witness ==
    /\ retry_delay = 2
    /\ NumSleeps = 3
    /\ \E i \in SleepIdx : log[i].secs = 6

\* C9: when all max_retries >= 1 attempts fail, make_request raises the exception
\* of the last attempt and returns no result
LastRequest == log[CHOOSE i \in RequestIdx : \A j \in RequestIdx : j <= i]

C9_RaisesLastException ==
    ((pc = "raised" \/ (pc = "loop" /\ attempt >= max_retries)) /\ max_retries >= 1) =>
        /\ NumRequests = max_retries
        /\ last_exception = LastRequest.exc
        /\ (pc = "raised" =>
                /\ outcome.kind = "raise"
                /\ outcome.exc = LastRequest.exc)
        /\ (pc = "loop" => outcome.kind = "none")

C9_Witness ==
    /\ pc = "raised"
    /\ max_retries = 3
    /\ log[1].exc = "Timeout"
    /\ LastRequest.exc = "ConnectionError"
    /\ outcome.exc = "ConnectionError"

\* ---------------------------------------------------------- post: the claims
Bodies == {k \in {"json", "data", "files"} : req[k] # Absent}

\* C10 as stated: post hands exactly one body representation to the transport,
\* files over json_data over data
C10_OneBodyFilesFirst ==
    req.via = "post" =>
        /\ Cardinality(Bodies) <= 1
        /\ (Truthy(req.args.files) => Bodies = {"files"})
        /\ (~Truthy(req.args.files) /\ req.args.json_data # None => Bodies = {"json"})

\* C10 as amended: post hands at most one of json_data and data (json_data over
\* data), and hands non-empty files in addition to it, not instead of it
C10_JsonOverDataPlusFiles ==
    req.via = "post" =>
        /\ ~({"json", "data"} \subseteq Bodies)
        /\ (req.args.json_data # None => req.json = req.args.json_data /\ req.data = Absent)
        /\ (req.args.json_data = None /\ req.args.data # None =>
                req.data = req.args.data /\ req.json = Absent)
        /\ (req.args.json_data = None /\ req.args.data = None =>
                req.data = Absent /\ req.json = Absent)
        /\ (Truthy(req.args.files) <=> req.files # Absent)
        /\ (req.files # Absent => req.files = req.args.files)

C10_Witness ==
    /\ req.via = "post"
    /\ req.args.files = "Dict" /\ req.args.json_data = "Dict" /\ req.args.data = "Str"
    /\ Bodies = {"json", "files"}
    /\ Finished

\* ------------------------------------------------ session manager: the claims
CreateIdx(n) ==
    {i \in DOMAIN hist : hist[i].op = "create_session" /\ hist[i].name = n}
\* the clients create_session(n) has handed to its callers
ReturnedFor(n) == {hist[i].cid : i \in {j \in CreateIdx(n) : hist[j].result = "returned"}}
\* the clients constructed for the name n
ConstructedFor(n) == {c \in DOMAIN clients : clients[c].forName = n}
\* nothing but create_session has been called so far
OnlyCreatesSoFar ==
    /\ \A t \in Threads : th[t].op \in {"none", "create_session"}
    /\ \A i \in DOMAIN hist : hist[i].op = "create_session"

\* C3: under any interleaving of create_session calls for the same unseen name, at
\* most one HTTPClient is constructed for the name and every caller gets the same one
C3_AtMostOneClientPerName ==
    OnlyCreatesSoFar =>
        \A n \in Names :
            /\ Cardinality(ConstructedFor(n)) <= 1
            /\ Cardinality(ReturnedFor(n)) <= 1

\* C4: under any interleaving with close_session / close_all_sessions, create_session
\* never raises for a vanished registry entry and never returns a closed client
C4_CreateSafeAgainstClose ==
    \A i \in DOMAIN hist :
        hist[i].op = "create_session" =>
            /\ hist[i].result = "returned"
            /\ ~hist[i].closed

\* hist[k] is a call that closes the session n
Closes(k, n) ==
    \/ hist[k].op = "close_session" /\ hist[k].name = n
    \/ hist[k].op = "close_all_sessions"

\* j is the first create_session(n) completed after the create_session(n) at i
NextCreate(i, j, n) ==
    /\ i \in CreateIdx(n) /\ j \in CreateIdx(n) /\ i < j
    /\ \A k \in CreateIdx(n) : ~(i < k /\ k < j)

\* C5: two successive create_session calls with the same name return the identical
\* client; after close_session(name) the next create_session(name) returns a new
\* instance, distinct from the closed one
C5_SameUntilClosedThenFresh ==
    \A n \in Names : \A i \in DOMAIN hist, j \in DOMAIN hist :
        NextCreate(i, j, n) =>
            /\ hist[i].result = "returned" /\ hist[j].result = "returned"
            /\ (\A k \in DOMAIN hist : i < k /\ k < j => ~Closes(k, n))
                    => hist[j].cid = hist[i].cid
            /\ (\E k \in DOMAIN hist : i < k /\ k < j /\ hist[k].op = "close_session"
                                        /\ hist[k].name = n)
                    => /\ hist[j].cid # hist[i].cid
                       /\ clients[hist[i].cid].closed
                       /\ ~hist[j].closed
                       /\ \A m \in DOMAIN hist : m < j => hist[m].cid # hist[j].cid

C5_Witness ==
    /\ Len(hist) = 4
    /\ \A i \in DOMAIN hist : hist[i].name = "a"
    /\ hist[1].op = "create_session" /\ hist[2].op = "create_session"
    /\ hist[3].op = "close_session" /\ hist[4].op = "create_session"
    /\ hist[1].cid = hist[2].cid
    /\ hist[4].cid # hist[2].cid

\* ------------------------------------------- make_request: body classification
BinaryTypes == {"image/png", "application/octet-stream"}

\* C11: the body is returned as raw bytes whenever the response carries a
\* content-type header (under whatever letter case of its name) whose value names an
\* image or application/octet-stream, and as text in every other case
C11_BinaryByContentType ==
    (pc = "returned" /\ req.via # "get_binary") =>
        (outcome.content = "bytes" <=> outcome.headers.ctVal \in BinaryTypes)

\* ------------------------------------------- create_session: re-configuration
\* the create_session call that thread t has just completed
CreatedBy(t) == th[t].pc = "done" /\ th[t].op = "create_session" /\ th[t].client # 0

\* C12: after a create_session call the client's timeout, SSL flag, proxy, max_retries
\* and retry_delay equal those of that (most recent) call, an empty proxy_url that
\* follows a non-empty one included
C12_ConfigOfLastCall ==
    \A t \in Threads :
        CreatedBy(t) =>
            LET c == clients[th[t].client]
                cfg == th[t].cfg
            IN  /\ cfg.timeout >= 1 => c.timeout = cfg.timeout
                /\ c.verify_ssl = cfg.verify_ssl
                /\ c.max_retries = cfg.max_retries
                /\ c.retry_delay = cfg.retry_delay
                /\ c.proxies = [http |-> cfg.proxy_url, https |-> cfg.proxy_url]

\* the headers that carry authentication
AuthHeaders == {"Authorization", "X-API-Key"}

\* the arguments of a create_session call name header h explicitly
SetsHeader(cfg, h) ==
    \/ cfg.auth_type \in {"bearer", "token"} /\ cfg.token # "" /\ h = "Authorization"
    \/ cfg.auth_type = "api_key" /\ cfg.api_key # "" /\ h = cfg.api_key_header
    \/ parsed_mapping(cfg.headers, NoHeaders)[h] # NoValue

\* the arguments of a create_session call give a basic-auth credential
SetsCredential(cfg) ==
    cfg.auth_type = "basic" /\ cfg.username # "" /\ cfg.password # ""

\* C13: a create_session on an existing session leaves the Authorization header, the
\* API-key header and the basic-auth credential as they were when auth_type is 'none';
\* each of them changes only when the call explicitly sets that same header or credential
C13_AuthPersists ==
    [][\A t \in Threads :
          (th[t].pc = "cs58" /\ th'[t].pc = "cs91") =>
              LET cid == th[t].client
                  cfg == th[t].cfg
              IN  /\ \A h \in AuthHeaders :
                        clients'[cid].headers[h] # clients[cid].headers[h] => SetsHeader(cfg, h)
                  /\ clients'[cid].auth # clients[cid].auth => SetsCredential(cfg)
                  /\ (cfg.auth_type = "none" /\ cfg.headers = "{}") =>
                        /\ clients'[cid].auth = clients[cid].auth
                        /\ \A h \in AuthHeaders :
                              clients'[cid].headers[h] = clients[cid].headers[h]]_vars

\* a session that carries a bearer token, an API key and a credential has just been
\* re-configured with auth_type 'none'
C13_Witness ==
    /\ CreatedBy(1)
    /\ th[1].cfg.auth_type = "none"
    /\ th[1].cfg.headers = "{}"
    /\ clients[th[1].client].headers["Authorization"] = <<"Bearer", "tok">>
    /\ clients[th[1].client].headers["X-API-Key"] = <<"k1">>
    /\ clients[th[1].client].auth = <<"u", "p">>

\* ------------------------------------------------------- HTTPAuth.apply_auth
\* the apply_auth call that thread t has just completed
AppliedBy(t) == th[t].pc = "done" /\ th[t].op = "apply_auth"

\* the api_key spec (k1, X-API-Key)
IsApiKeySpec(a) == a.type = "api_key" /\ a.api_key = "k1" /\ a.api_key_header = "X-API-Key"

\* C14 as stated: after apply_auth with the api_key spec (k1, X-API-Key) the client's
\* headers contain X-API-Key: k1 and no Authorization header, whatever state the
\* client was in
C14_ApiKeyAndNoAuthorization ==
    \A t \in Threads :
        (AppliedBy(t) /\ IsApiKeySpec(th[t].auth)) =>
            /\ clients[th[t].client].headers["X-API-Key"] = <<"k1">>
            /\ clients[th[t].client].headers["Authorization"] = NoValue

\* C14: apply_auth with the api_key spec (k1, X-API-Key) sets X-API-Key: k1 and leaves
\* every other header, the Authorization header included, as it was: absent on a fresh
\* client, still present on a session that applied a bearer token earlier
C14_ApiKeySetAuthorizationKept ==
    [][\A t \in Threads :
          (th[t].pc = "aa61" /\ th'[t].pc = "done" /\ IsApiKeySpec(th[t].auth)) =>
              LET cid == th[t].client
              IN  /\ clients'[cid].headers["X-API-Key"] = <<"k1">>
                  /\ \A h \in HeaderNames \ {"X-API-Key"} :
                        clients'[cid].headers[h] = clients[cid].headers[h]
                  /\ clients'[cid].auth = clients[cid].auth]_vars

\* the api_key spec has been applied to a session that carries an earlier bearer token
C14_Witness ==
    /\ AppliedBy(1)
    /\ IsApiKeySpec(th[1].auth)
    /\ clients[th[1].client].headers["X-API-Key"] = <<"k1">>
    /\ clients[th[1].client].headers["Authorization"] = <<"Bearer", "tok">>

\* C15: apply_auth with an oauth2 spec calls the token URL with the client id and
\* secret; when the endpoint answers with an access token the client carries
\* 'Authorization: Bearer <access_token>', and on a failure it is left unchanged
C15_OAuth2AcquiresToken ==
    \A t \in Threads :
        (AppliedBy(t) /\ th[t].auth.type = "oauth2" /\ th[t].auth.client_id # ""
            /\ th[t].auth.client_secret # "" /\ th[t].auth.oauth_token_url # "") =>
            /\ th[t].posted >= 1
            /\ \A answer \in TokenAnswers :
                  get_oauth2_token(answer).ok =>
                      clients[th[t].client].headers["Authorization"] =
                          <<"Bearer", get_oauth2_token(answer).token>>

\* ------------------------------------------------------- concat_form_data
RECURSIVE SeqSum(_)
SeqSum(q) == IF q = << >> THEN 0 ELSE Head(q) + SeqSum(Tail(q))

\* the data dicts and the file dicts of the arguments, slot by slot
DataOf(fl) == [j \in DOMAIN fl |-> fl[j].data]
FilesOf(fl) == [j \in DOMAIN fl |-> fl[j].files]

\* entries of the dicts taken in so far, when the loop stands at entry pos of slot's dict
\* (started) or has not yet reached it / is past it
TakenIn(dicts, slot, here, past, pos) ==
    SeqSum([j \in DOMAIN dicts |->
               IF j < slot \/ (j = slot /\ past) THEN Len(dicts[j])
               ELSE IF j = slot /\ here THEN pos - 1
               ELSE 0])

DistinctKeys(m) == Cardinality(ItemKeys(m)) = Len(m)

\* C16: with overwrite_duplicates = false every incoming entry is stored under a key
\* not used before it, so at each moment of the merge, and in its result, the merged
\* fields map has as many entries as were taken in from the inputs' fields, no two under
\* one key, and likewise the files map
C16_NothingDropped ==
    (cf.pc # "idle" /\ ~cf.overwrite_duplicates) =>
        /\ Len(cf.combined_data.data) =
              TakenIn(DataOf(cf.form_data_list), cf.slot, cf.pc = "l47", cf.pc = "l61", cf.pos)
        /\ Len(cf.combined_data.files) =
              TakenIn(FilesOf(cf.form_data_list), cf.slot, cf.pc = "l61", FALSE, cf.pos)
        /\ DistinctKeys(cf.combined_data.data)
        /\ DistinctKeys(cf.combined_data.files)
        /\ cf.pc = "returned" =>
              /\ Len(cf.combined_data.data) =
                    SeqSum([j \in DOMAIN cf.form_data_list |-> Len(cf.form_data_list[j].data)])
              /\ Len(cf.combined_data.files) =
                    SeqSum([j \in DOMAIN cf.form_data_list |-> Len(cf.form_data_list[j].files)])

\* a finished merge without overwriting in which fields and files collided
C16_Witness ==
    /\ cf.pc = "returned"
    /\ ~cf.overwrite_duplicates
    /\ Len(cf.combined_data.data) = 2 * NumSlots
    /\ Len(cf.combined_data.files) = NumSlots
    /\ "a_1" \in ItemKeys(cf.combined_data.files)

\* the entry e was stored into m, giving m2, by the no-overwrite rule
StoredBesides(m, m2, e) ==
    /\ Len(m2) = Len(m) + 1
    /\ \A j \in DOMAIN m : m2[j] = m[j]
    /\ e.k \notin ItemKeys(m) => m2[Len(m2)] = e
    /\ e.k \in ItemKeys(m) =>
          \E n \in 1..(Len(m) + 1) :
              /\ m2[Len(m2)] = [k |-> Suffixed(e.k, n), v |-> e.v]
              /\ Suffixed(e.k, n) \notin ItemKeys(m)
              /\ \A i \in 1..(n - 1) : Suffixed(e.k, i) \in ItemKeys(m)

\* C17: with overwrite_duplicates = false an incoming key k that is already in the
\* merged map is stored under k_n, n the smallest integer >= 1 with k_n unused at that
\* moment, and every entry already in the merged map keeps its key and its value
C17_SmallestFreeSuffix ==
    [][/\ (cf.pc = "l47" /\ cf'.pc = "l47" /\ ~cf.overwrite_duplicates) =>
              StoredBesides(cf.combined_data.data, cf'.combined_data.data,
                            cf.form_data_list[cf.slot].data[cf.pos])
       /\ (cf.pc = "l61" /\ cf'.pc = "l61" /\ ~cf.overwrite_duplicates) =>
              StoredBesides(cf.combined_data.files, cf'.combined_data.files,
                            cf.form_data_list[cf.slot].files[cf.pos])
       /\ ~cf.overwrite_duplicates =>
              /\ \A j \in DOMAIN cf.combined_data.data :
                    cf'.combined_data.data[j] = cf.combined_data.data[j]
              /\ \A j \in DOMAIN cf.combined_data.files :
                    cf'.combined_data.files[j] = cf.combined_data.files[j]]_vars

\* an incoming 'a' found both 'a' and 'a_1' taken and went to 'a_2'
C17_Witness ==
    /\ cf.pc = "returned"
    /\ ~cf.overwrite_duplicates
    /\ {"a", "a_1", "a_2"} \subseteq ItemKeys(cf.combined_data.data)
    /\ ItemGet(cf.combined_data.data, "a_1") = "y"

\* the value of key in the last dict of dicts that has it
LastValue(dicts, key) ==
    LET last == CHOOSE j \in DOMAIN dicts :
                    /\ key \in ItemKeys(dicts[j])
                    /\ \A i \in DOMAIN dicts : key \in ItemKeys(dicts[i]) => i <= j
    IN  ItemGet(dicts[last], key)

LastWins(m, dicts) ==
    /\ ItemKeys(m) = UNION { ItemKeys(dicts[j]) : j \in DOMAIN dicts }
    /\ DistinctKeys(m)
    /\ \A key \in ItemKeys(m) : ItemGet(m, key) = LastValue(dicts, key)

\* C18: with overwrite_duplicates = true the merged value of every key that an input
\* defines is the value of the last input, in sequence order, that defines it; the
\* fields map is determined by the inputs' fields alone and the files map by their files
C18_LastBodyWins ==
    (cf.pc = "returned" /\ cf.overwrite_duplicates) =>
        /\ LastWins(cf.combined_data.data, DataOf(cf.form_data_list))
        /\ LastWins(cf.combined_data.files, FilesOf(cf.form_data_list))

\* an overwriting merge in which field 'a' collided with differing values and no file did
C18_Witness ==
    /\ cf.pc = "returned"
    /\ cf.overwrite_duplicates
    /\ cf.form_data_list[1].data = <<[k |-> "a", v |-> "x"]>>
    /\ cf.form_data_list[1].files = <<[k |-> "a", v |-> File1]>>
    /\ \A j \in 2..NumSlots :
          /\ cf.form_data_list[j].given
          /\ cf.form_data_list[j].files = NoItems
          /\ "a" \in ItemKeys(cf.form_data_list[j].data)
    /\ ItemGet(cf.combined_data.data, "a") = "y"
    /\ ItemGet(cf.combined_data.files, "a") = File1

\* C19: concat_form_data is a left fold: the body merged from the whole list is the body
\* merged from [the merge of a leading part, then the rest], for both values of
\* overwrite_duplicates, and a None at an optional position gives what leaving it out gives
C19_LeftFold ==
    cf.pc = "returned" =>
        LET fl == cf.form_data_list
            ow == cf.overwrite_duplicates
        IN  /\ \A p \in 1..(Len(fl) - 1) :
                  cf.combined_data =
                      concat_form_data(<<concat_form_data(SubSeq(fl, 1, p), ow)>>
                                           \o SubSeq(fl, p + 1, Len(fl)), ow)
            /\ cf.combined_data = concat_form_data(SelectSeq(fl, LAMBDA f : f.given), ow)

\* a finished merge with a None between two bodies whose fields collide
C19_Witness ==
    /\ cf.pc = "returned"
    /\ ~cf.form_data_list[2].given
    /\ cf.form_data_list[NumSlots].given
    /\ "a" \in ItemKeys(cf.form_data_list[1].data)
    /\ "a" \in ItemKeys(cf.form_data_list[NumSlots].data)
    /\ cf.form_data_list[NumSlots].files # NoItems

\* ------------------------------------------------------- create_form_data
\* the item that the loop of create_form_data stands at
ItemAt == fd.items[fd.pos]
ItemStep == fd.pc = "l253" /\ fd'.pc = "l253" /\ fd'.pos = fd.pos + 1 /\ ItemAt.given
FileFails(item) == item.type = "file" /\ ~(path_exists(item.file_path) /\ can_read(item.file_path))
Diagnostic(item) == IF path_exists(item.file_path) THEN "Error reading file" ELSE "File not found"
FileTuple(item) ==
    <<item.filename, IF item.type = "file" THEN FileBytes ELSE item.data, item.content_type>>

\* C20 as stated: each item is mapped by its type: a text item writes fields[name], a
\* readable file writes files[name], an absent or unreadable file writes a diagnostic
\* into fields[name] and files[name] is unset, a bytes item writes files[name]
C20_EveryBytesItemFiled ==
    [][ItemStep =>
          LET item == ItemAt
              data2 == fd'.form_data.data
              files2 == fd'.form_data.files
          IN  /\ item.type = "text" =>
                    item.name \in ItemKeys(data2) /\ ItemGet(data2, item.name) = item.value
              /\ (item.type = "file" /\ ~FileFails(item)) =>
                    item.name \in ItemKeys(files2) /\ ItemGet(files2, item.name) = FileTuple(item)
              /\ FileFails(item) =>
                    /\ item.name \in ItemKeys(data2)
                    /\ ItemGet(data2, item.name) = Diagnostic(item)
                    /\ item.name \notin ItemKeys(files2)
              /\ item.type = "image_bytes" =>
                    item.name \in ItemKeys(files2) /\ ItemGet(files2, item.name) = FileTuple(item)]_vars

\* C20: each item is mapped by its type and the loop goes on to the next item: a text
\* item writes fields[name]; a readable file writes files[name]; an absent or unreadable
\* file writes a diagnostic into fields[name] and writes nothing into files; a bytes item
\* that carries bytes writes files[name], one that carries none writes a diagnostic into
\* fields[name]; the map an item does not write stays as it was
C20_ItemsMappedByType ==
    [][(fd.pc = "l253" /\ fd.pos <= Len(fd.items)) =>
          /\ fd'.pc = "l253" /\ fd'.pos = fd.pos + 1
          /\ ItemStep =>
               LET item == ItemAt
                   data == fd.form_data.data
                   files == fd.form_data.files
                   data2 == fd'.form_data.data
                   files2 == fd'.form_data.files
               IN  /\ item.type = "text" =>
                         data2 = item_set(data, item.name, item.value) /\ files2 = files
                   /\ (item.type = "file" /\ ~FileFails(item)) =>
                         files2 = item_set(files, item.name, FileTuple(item)) /\ data2 = data
                   /\ FileFails(item) =>
                         data2 = item_set(data, item.name, Diagnostic(item)) /\ files2 = files
                   /\ (item.type = "image_bytes" /\ item.data # NoBytes) =>
                         files2 = item_set(files, item.name, FileTuple(item)) /\ data2 = data
                   /\ (item.type = "image_bytes" /\ item.data = NoBytes) =>
                         /\ data2 = item_set(data, item.name, "Error: No image data")
                         /\ files2 = files]_vars

\* a composition that went on after a missing file and after an image item without bytes
C20_Witness ==
    /\ fd.pc = "returned"
    /\ fd.items[1] = FileItem("f", "gone.bin")
    /\ fd.items[2] = BytesItem("g", NoBytes)
    /\ fd.items[NumItems] = BytesItem("f", PngBytes)
    /\ ItemGet(fd.form_data.data, "f") = "File not found"
    /\ ItemGet(fd.form_data.data, "g") = "Error: No image data"
    /\ ItemGet(fd.form_data.files, "f") = <<"image.png", PngBytes, "image/png">>

\* ------------------------------------------------------------ field extraction
\* the part that the traversal stands at
PartAt == jx.parts[jx.pos]
SimpleStep == jx.pc = "l192" /\ jx.pos <= Len(jx.parts)
NestedStep == jx.pc = "l228" /\ jx.pos <= Len(jx.parts)
NodeStep == jx.pc = "n43" /\ jx.pos <= Len(jx.parts)

\* part is a key of the mapping current
KeyPresent(current, part) == is_dict(current) /\ part \in ItemKeys(current.items)
\* part is an index into the sequence current
IndexInRange(current, part) ==
    is_list(current) /\ isdigit(part) /\ int_of(part) < Len(current.elems)
\* what part selects in current
Selected(current, part) ==
    IF is_dict(current) THEN ItemGet(current.items, part) ELSE current.elems[int_of(part) + 1]
\* part selects nothing in current: a key absent from a mapping, an index out of range,
\* a segment that is no index on a sequence, or a value that is neither
Unselectable(current, part) == ~KeyPresent(current, part) /\ ~IndexInRange(current, part)

\* the simple traversal ended as not found: the default, if any, is all it gives
SimpleNotFound == jx'.pc = "l148" /\ jx'.results = default_results(jx.default) /\ ~jx'.resolved
\* get_json_field ended as not found
NodeNotFound ==
    jx'.pc = "returned" /\ ~jx'.result.found /\ jx'.result.value = JStr(jx.default)

TheExample == Documents \cap
    { JDict(<<[k |-> "a", v |-> JDict(<<[k |-> "b", v |-> JList(<<JNum(42), JNum(43)>>)]>>)]>>) }

C22_NotFoundSignalled ==
    (jx.pc = "returned" /\ ~jx.resolved) =>
        /\ jx.fn = "node" => ~jx.result.found
        /\ jx.fn \in {"simple", "nested"} => jx.result.count = 0

\* the step selects a JSON null
SelectsNull(current, part) ==
    ~Unselectable(current, part) /\ is_none(Selected(current, part))

\* C29: in _simple_extract and _nested_extract a path that comes to a JSON null, at its
\* last or at an earlier step, gives what a path that does not exist gives: the default
\* if it is non-empty and an empty result otherwise; get_json_field reports a final
\* null as found
C29_NullAsMissing ==
    [][/\ (SimpleStep /\ ~startswith_dollar(PartAt) /\ SelectsNull(jx.current, PartAt)) =>
              SimpleNotFound
       /\ (NestedStep /\ SelectsNull(jx.current, PartAt)) => SimpleNotFound
       /\ (jx.pc \in {"l192", "l228"} /\ jx.pos > Len(jx.parts) /\ is_none(jx.current)) =>
              SimpleNotFound
       /\ (jx.pc = "l148" /\ ~jx.resolved) =>
              /\ jx'.result.value = JStr(jx.default)
              /\ jx'.result.count = IF jx.default # "" THEN 1 ELSE 0
       /\ (NodeStep /\ SelectsNull(jx.current, PartAt)) =>
              jx'.pc = "n43" /\ jx'.current = JNull
       /\ (jx.pc = "n43" /\ jx.pos > Len(jx.parts) /\ is_none(jx.current)) =>
              jx'.result.found /\ jx'.result.value = JNull]_vars

\* _simple_extract came to the null under a.b and returned the default
C29_Witness ==
    /\ jx.pc = "returned"
    /\ jx.fn = "simple"
    /\ jx.parts = <<"a", "b">>
    /\ KeyPresent(jx.data, "a")
    /\ KeyPresent(dict_get(jx.data, "a"), "b")
    /\ is_none(dict_get(dict_get(jx.data, "a"), "b"))
    /\ jx.default = "dflt"
    /\ jx.result.value = JStr("dflt")

\* C30: _simple_extract skips a segment that begins with '$' at every position of the
\* path, leaving the traversal as it was, so a mapping key that begins with '$' is never
\* selected: every value the simple traversal moves to is selected by another segment
C30_DollarSkipped ==
    [][SimpleStep =>
          /\ startswith_dollar(PartAt) => jx' = [jx EXCEPT !.pos = jx.pos + 1]
          /\ (jx'.current # jx.current) =>
                ~startswith_dollar(PartAt) /\ jx'.current = Selected(jx.current, PartAt)]_vars

\* a '$' in the middle of the path was passed over and the path resolved
C30_Witness ==
    /\ jx.pc = "returned"
    /\ jx.fn = "simple"
    /\ jx.parts = <<"a", "$k", "b">>
    /\ jx.resolved
    /\ jx.result.value = JList(<<JNum(42), JNum(43)>>)

\* ------------------------------------------------- make_request: no retries left
\* C28: with max_retries 0 or negative make_request and get_binary make no transport
\* call and no sleep, and raise the generic 'failed after all retries' exception
\* instead of returning a result
C28_NoAttemptWithoutRetries ==
    (pc # "idle" /\ max_retries <= 0) =>
        /\ log = << >>
        /\ pc \in {"loop", "raised"}
        /\ pc = "raised" => outcome = Raise(failed_after_all_retries(req.via))

\* get_binary has raised on a client whose max_retries is negative
C28_Witness ==
    /\ pc = "raised"
    /\ max_retries < 0
    /\ req.via = "get_binary"
    /\ log = << >>
    /\ outcome = Raise("HTTP binary request failed after all retries")

\* ------------------------------------------------------------- http_get
\* the text is there and is no JSON object
aux_malformed(text) == text # "" /\ ~aux_applied(text)

\* C23: headers or params text that is not valid JSON, or valid JSON but not an object,
\* never prevents the request from being sent: the piece is skipped and the request is
\* issued with the defaults for that piece
C23_MalformedAuxSkipped ==
    (hg.pc = "returned" /\ (aux_malformed(hg.headers) \/ aux_malformed(hg.params))) =>
        /\ Len(hg.log) >= 1
        /\ \A i \in DOMAIN hg.log :
              /\ hg.log[i].headers_sent = aux_applied(hg.headers)
              /\ hg.log[i].params_sent = aux_applied(hg.params)

\* C24: a response with a non-2xx status is not retried and is returned to the caller
\* with its actual status code
C24_StatusReturnedUnretried ==
    hg.pc = "returned" =>
        \A i \in DOMAIN hg.log :
            (hg.log[i].kind = "response" /\ ~is_success(hg.log[i].status)) =>
                /\ i = Len(hg.log)
                /\ hg.result.status_code = hg.log[i].status

\* ------------------------------------------------------------ close_session
\* C25: close_session on a name that is not in the registry is a no-op: it raises
\* nothing, closes no client and leaves every session and its client as they were
C25_CloseAbsentNoOp ==
    [][\A t \in Threads :
          (th[t].pc = "cl111" /\ th'[t].pc # "cl111" /\ ~Has(th[t].name)) =>
              /\ th'[t].pc = "done"
              /\ entries' = entries
              /\ clients' = clients
              /\ hist' = Append(hist, Completed(t, "returned", 0, None))]_vars

\* close_session has returned for a name that was never registered, beside an open session
C25_Witness ==
    /\ th[1].pc = "done"
    /\ th[1].op = "close_session"
    /\ \A i \in DOMAIN clients : clients[i].forName # th[1].name
    /\ \E other \in Names : Has(other) /\ ~clients[Get(other)].closed
    /\ hist[Len(hist)].result = "returned"

\* ------------------------------------------------------------- verb nodes
\* the verb-node call that thread t has just completed
NodeDone(t) == th[t].pc = "done" /\ th[t].op = "make_request"

GivenHeaders(t) == parsed_mapping(th[t].cfg.headers, NoHeaders)
GivenCookies(t) == parsed_mapping(th[t].cfg.cookies, NoCookies)

\* C27: headers, cookies and auth passed to a verb node for a call through a session
\* are written onto the session's shared client; no other step of a verb-node call
\* changes them, and every request carries what the client holds, so they stay in
\* effect for the later calls through that session that pass none of their own
C27_SessionKeepsCallSettings ==
    [][\A t \in Threads :
          (th[t].op = "make_request" /\ th[t].session # 0 /\ th[t].pc # "vn51") =>
              LET c == clients[th[t].session]
                  c2 == clients'[th[t].session]
              IN  /\ (th[t].pc = "vn66" /\ th'[t].pc = "vn129") =>
                        /\ \A h \in HeaderNames :
                              c2.headers[h] =
                                 IF GivenHeaders(t)[h] # NoValue THEN GivenHeaders(t)[h]
                                 ELSE IF h = "Authorization" /\ th[t].auth.type = "bearer"
                                 THEN <<"Bearer", th[t].auth.token>>
                                 ELSE c.headers[h]
                        /\ \A k \in CookieNames :
                              c2.cookies[k] =
                                 IF GivenCookies(t)[k] # NoValue THEN GivenCookies(t)[k]
                                 ELSE c.cookies[k]
                        /\ c2.auth = c.auth
                  /\ th[t].pc # "vn66" => c2 = c
                  /\ (th[t].pc = "vn129" /\ th'[t].pc # "vn129") =>
                        th'[t].sent = [headers |-> c.headers, cookies |-> c.cookies,
                                       auth |-> c.auth]]_vars

\* a call through the session that passed no headers, cookies or auth has sent the
\* header, the cookie and the bearer token that an earlier call passed
C27_Witness ==
    /\ NodeDone(1)
    /\ th[1].session # 0
    /\ th[1].cfg = DefaultCfg
    /\ th[1].auth = NoAuthConfig
    /\ th[1].sent.headers["X-Trace"] = <<"t1">>
    /\ th[1].sent.headers["Authorization"] = <<"Bearer", "tok">>
    /\ th[1].sent.cookies["sid"] = <<"1">>

====
